---- MODULE Spec2Model ----
(***************************************************************************)
(* Node metrics derivation pipeline of the pNode analytics dashboard       *)
(* (src/src/hooks/use-media-query.ts, the nodeData part): version          *)
(* comparison, health scoring, ranking and network aggregation.            *)
(*                                                                         *)
(* The functions are pure.  Each specification below draws the inputs of   *)
(* one function family in Init and applies the functions in its actions.   *)
(*                                                                         *)
(* JavaScript numbers are modelled as exact rationals extended with NaN,   *)
(* +Infinity, -Infinity and undefined (a missing optional field).  Strings *)
(* are sequences of one-character strings, so that === is sequence         *)
(* equality and parsing is done character by character.                    *)
(***************************************************************************)
EXTENDS Integers, Sequences, FiniteSets, TLC

VARIABLES
    nodes,   \* the Node[] handed to the function under execution
    arg,     \* its remaining arguments
    op,      \* the function that returned last ("init" before any call)
    ret,     \* the value it returned
    ui       \* the state cells and visible effects of the React component under
             \* execution (NoComponent while a pure function runs on its own)

vars == <<nodes, arg, op, ret, ui>>

NoComponent == [component |-> "none"]

(***************************************************************************)
(* Bounds of the model.                                                    *)
(***************************************************************************)
MaxUptime == 31
MaxStorage == 3
MaxNodes == 3
MaxRanked == 10
MaxVerLen == 3
MaxDistNodes == 4
MaxFieldLen == 2
MaxContentLen == 4
MaxRows == 3
MaxExportNodes == 2
MaxColumns == 2
MaxMapNodes == 2
MaxMapKey == 2

(***************************************************************************)
(* JavaScript numbers.                                                     *)
(***************************************************************************)
Abs(x) == IF x < 0 THEN -x ELSE x

RECURSIVE GCD(_, _)
GCD(a, b) == IF b = 0 THEN a ELSE GCD(b, a % b)

\* The finite number n/d (d # 0), in lowest terms with a positive denominator.
Fin(n, d) ==
    LET s == IF d < 0 THEN -1 ELSE 1
        g == GCD(Abs(n), Abs(d))
    IN  [k |-> "fin", n |-> (s * n) \div g, d |-> (s * d) \div g]

Lit(i) == [k |-> "fin", n |-> i, d |-> 1]
NaN == [k |-> "nan", n |-> 0, d |-> 1]
Infinity(s) == [k |-> "inf", n |-> s, d |-> 1]
Undefined == [k |-> "undef", n |-> 0, d |-> 1]

\* ToNumber(undefined) is NaN.
IsNaN(x) == x.k \in {"nan", "undef"}
IsFinite(x) == x.k = "fin"
Sign(x) == IF x.n > 0 THEN 1 ELSE IF x.n < 0 THEN -1 ELSE 0

\* x + y
NumAdd(x, y) ==
    IF IsNaN(x) \/ IsNaN(y) THEN NaN
    ELSE IF x.k = "inf" /\ y.k = "inf" THEN (IF x.n = y.n THEN x ELSE NaN)
    ELSE IF x.k = "inf" THEN x
    ELSE IF y.k = "inf" THEN y
    ELSE Fin(x.n * y.d + y.n * x.d, x.d * y.d)

\* x * y
NumMul(x, y) ==
    IF IsNaN(x) \/ IsNaN(y) THEN NaN
    ELSE IF x.k = "inf" \/ y.k = "inf"
         THEN (IF Sign(x) * Sign(y) = 0 THEN NaN ELSE Infinity(Sign(x) * Sign(y)))
    ELSE Fin(x.n * y.n, x.d * y.d)

\* x / y: 0/0 is NaN and a non-zero number over 0 is an infinity.
NumDiv(x, y) ==
    IF IsNaN(x) \/ IsNaN(y) THEN NaN
    ELSE IF x.k = "inf" /\ y.k = "inf" THEN NaN
    ELSE IF x.k = "inf" THEN Infinity(IF Sign(y) < 0 THEN -Sign(x) ELSE Sign(x))
    ELSE IF y.k = "inf" THEN Lit(0)
    ELSE IF y.n = 0 THEN (IF x.n = 0 THEN NaN ELSE Infinity(Sign(x)))
    ELSE Fin(x.n * y.d, x.d * y.n)

\* x - y
NumSub(x, y) == NumAdd(x, [y EXCEPT !.n = -y.n])

\* x < y (false when either is NaN)
NumLess(x, y) ==
    IF IsNaN(x) \/ IsNaN(y) THEN FALSE
    ELSE IF x.k = "inf" THEN x.n < 0 /\ ~(y.k = "inf" /\ y.n < 0)
    ELSE IF y.k = "inf" THEN y.n > 0
    ELSE x.n * y.d < y.n * x.d

\* x === y on numbers (NaN equals nothing, itself included)
NumEq(x, y) == ~IsNaN(x) /\ ~IsNaN(y) /\ x = y

\* x >= y
NumGeq(x, y) == NumEq(x, y) \/ NumLess(y, x)

\* Math.min(x, y)
MathMin(x, y) ==
    IF IsNaN(x) \/ IsNaN(y) THEN NaN
    ELSE IF NumLess(y, x) THEN y ELSE x

\* Math.round(x): the nearest integer, halves towards +Infinity.
MathRound(x) ==
    IF IsNaN(x) THEN NaN
    ELSE IF x.k = "inf" THEN x
    ELSE Lit((2 * x.n + x.d) \div (2 * x.d))

\* x || 0: undefined, NaN and 0 are falsy.
OrZero(x) == IF IsNaN(x) \/ x = Lit(0) THEN Lit(0) ELSE x

\* x ?? 0: only undefined is nullish.
NullishZero(x) == IF x.k = "undef" THEN Lit(0) ELSE x

(***************************************************************************)
(* Version strings and the version comparator.                             *)
(***************************************************************************)
Digits == {"0", "1", "2", "3", "4", "5", "6", "7", "8", "9"}

DigitValue(c) ==
    CASE c = "0" -> 0 [] c = "1" -> 1 [] c = "2" -> 2 [] c = "3" -> 3
      [] c = "4" -> 4 [] c = "5" -> 5 [] c = "6" -> 6 [] c = "7" -> 7
      [] c = "8" -> 8 [] c = "9" -> 9

RECURSIVE DecimalValue(_)
DecimalValue(s) ==
    IF s = <<>> THEN 0
    ELSE 10 * DecimalValue(SubSeq(s, 1, Len(s) - 1)) + DigitValue(s[Len(s)])

AllDigits(s) == \A i \in 1..Len(s) : s[i] \in Digits

\* Number(p) for the strings of the model: the empty string is 0, a decimal
\* integer with an optional minus sign is its value, "Infinity" is Infinity,
\* anything else is NaN.
ToNumber(p) ==
    IF p = <<>> THEN Lit(0)
    ELSE IF AllDigits(p) THEN Lit(DecimalValue(p))
    ELSE IF Head(p) = "-" /\ Len(p) > 1 /\ AllDigits(Tail(p))
         THEN Lit(-DecimalValue(Tail(p)))
    ELSE IF p = <<"I", "n", "f", "i", "n", "i", "t", "y">> THEN Infinity(1)
    ELSE NaN

\* version.replace(/^v/i, '')
StripV(version) ==
    IF version # <<>> /\ Head(version) \in {"v", "V"} THEN Tail(version) ELSE version

\* s.split('.'): always at least one part, the empty string splits to [""].
RECURSIVE SplitDot(_)
SplitDot(s) ==
    LET dots == {i \in 1..Len(s) : s[i] = "."}
    IN  IF dots = {} THEN <<s>>
        ELSE LET i == CHOOSE j \in dots : \A m \in dots : j <= m
             IN  <<SubSeq(s, 1, i - 1)>> \o SplitDot(SubSeq(s, i + 1, Len(s)))

parseVersion_KeepNaN(version) ==
    LET parts == SplitDot(StripV(version))
    IN  [i \in 1..Len(parts) |-> ToNumber(parts[i])]

parseVersion(version) ==
    LET parts == SplitDot(StripV(version))
        nums == [i \in 1..Len(parts) |-> ToNumber(parts[i])]
    IN  [i \in 1..Len(nums) |-> IF IsFinite(nums[i]) THEN nums[i] ELSE Lit(0)]

\* av[i] ?? 0 (i is 1-based here)
At(v, i) == IF i <= Len(v) THEN v[i] ELSE Lit(0)

\* The for loop of compareVersions from index i on.
RECURSIVE CompareLoop(_, _, _, _)
CompareLoop(av, bv, i, maxLen) ==
    IF i > maxLen THEN 0
    ELSE LET ai == At(av, i)
             bi == At(bv, i)
         IN  IF ~NumEq(ai, bi) THEN (IF NumLess(bi, ai) THEN 1 ELSE -1)
             ELSE CompareLoop(av, bv, i + 1, maxLen)

compareVersions(a, b) ==
    LET av == parseVersion(a)
        bv == parseVersion(b)
        maxLen == IF Len(av) > Len(bv) THEN Len(av) ELSE Len(bv)
    IN  CompareLoop(av, bv, 1, maxLen)

\* inputNodes.map(n => n.version).reduce(...) from element i on.
RECURSIVE ReduceLatest(_, _, _)
ReduceLatest(inputNodes, i, latest) ==
    IF i > Len(inputNodes) THEN latest
    ELSE LET v == inputNodes[i].version
         IN  ReduceLatest(inputNodes, i + 1,
                          IF compareVersions(v, latest) > 0 THEN v ELSE latest)

\* The reduce with >= in place of >: the last of several equal versions wins.
RECURSIVE ReduceLatest_LastWins(_, _, _)
ReduceLatest_LastWins(inputNodes, i, latest) ==
    IF i > Len(inputNodes) THEN latest
    ELSE LET v == inputNodes[i].version
         IN  ReduceLatest_LastWins(inputNodes, i + 1,
                                   IF compareVersions(v, latest) >= 0 THEN v ELSE latest)

getLatestVersion_LastWins(inputNodes) ==
    IF Len(inputNodes) = 0 THEN <<"0", ".", "0", ".", "0">>
    ELSE ReduceLatest_LastWins(inputNodes, 2, inputNodes[1].version)

getLatestVersion(inputNodes) ==
    IF Len(inputNodes) = 0 THEN <<"0", ".", "0", ".", "0">>
    ELSE ReduceLatest(inputNodes, 2, inputNodes[1].version)

(***************************************************************************)
(* Health scorer.                                                          *)
(***************************************************************************)
DefaultLatestVersion == <<"0", ".", "8", ".", "0">>

\* calculateHealthScore without the cap of the uptime term at 40.
calculateHealthScore_UncappedUptime(node, latestVersion) ==
    LET s1 == NumMul(NumDiv(Lit(node.uptime), Lit(30)), Lit(40))
        efficiency == NumDiv(Lit(node.storageCommitted), Lit(node.storageTotal))
        s2 == NumAdd(s1, NumMul(efficiency, Lit(25)))
        s3 == NumAdd(s2, IF node.version = latestVersion THEN Lit(20) ELSE Lit(10))
        s4 == NumAdd(s3, IF node.isPublic THEN Lit(15) ELSE Lit(5))
    IN  MathMin(MathRound(s4), Lit(100))

calculateHealthScore(node, latestVersion) ==
    LET uptimeDays == Lit(node.uptime)
        s1 == NumAdd(Lit(0),
                     MathMin(NumMul(NumDiv(uptimeDays, Lit(30)), Lit(40)), Lit(40)))
        efficiency == NumDiv(Lit(node.storageCommitted), Lit(node.storageTotal))
        s2 == NumAdd(s1, NumMul(efficiency, Lit(25)))
        isLatest == node.version = latestVersion
        s3 == NumAdd(s2, IF isLatest THEN Lit(20) ELSE Lit(10))
        s4 == NumAdd(s3, IF node.isPublic THEN Lit(15) ELSE Lit(5))
    IN  MathMin(MathRound(s4), Lit(100))

(***************************************************************************)
(* Node records.  The optional fields healthScore, rank, percentile and    *)
(* percentileRank are always present in the model and hold Undefined (the  *)
(* string "undefined" for percentile) while the JavaScript object lacks    *)
(* them: reading an absent property yields undefined.                      *)
(***************************************************************************)
MkNode(pubkey, status, version, storageUsed, storageTotal, uptime, isPublic, storageCommitted, healthScore) ==
    [pubkey |-> pubkey, status |-> status, version |-> version,
     storageUsed |-> storageUsed, storageTotal |-> storageTotal,
     uptime |-> uptime, isPublic |-> isPublic,
     storageCommitted |-> storageCommitted, healthScore |-> healthScore,
     rank |-> Undefined, percentile |-> "undefined", percentileRank |-> Undefined]

V_1_0_0 == <<"1", ".", "0", ".", "0">>
V_1_0 == <<"1", ".", "0">>
V_2_0_0 == <<"2", ".", "0", ".", "0">>

(***************************************************************************)
(* SpecScore: calculateHealthScore on one node.                            *)
(***************************************************************************)
ScoreVersions == {V_1_0_0, V_1_0, DefaultLatestVersion}

ScoreNodes ==
    {MkNode("pk1", "online", v, 0, t, u, p, c, Undefined) :
        v \in ScoreVersions, t \in 0..MaxStorage, u \in 0..MaxUptime,
        p \in BOOLEAN, c \in 0..MaxStorage}

\* The latestVersion argument: given, or omitted so that the default applies.
ScoreArgs ==
    {[given |-> TRUE, latestVersion |-> v] : v \in ScoreVersions}
        \cup {[given |-> FALSE, latestVersion |-> <<>>]}

InitScore ==
    /\ nodes \in {<<n>> : n \in ScoreNodes}
    /\ arg \in ScoreArgs
    /\ op = "init"
    /\ ret = Undefined
    /\ ui = NoComponent

\* calculateHealthScore(node, latestVersion)
CalculateHealthScore ==
    /\ op = "init"
    /\ arg.given
    /\ ret' = calculateHealthScore(nodes[1], arg.latestVersion)
    /\ op' = "calculateHealthScore"
    /\ UNCHANGED <<nodes, arg, ui>>

\* calculateHealthScore(node): the parameter default '0.8.0' applies.
CalculateHealthScoreDefault ==
    /\ op = "init"
    /\ ~arg.given
    /\ ret' = calculateHealthScore(nodes[1], DefaultLatestVersion)
    /\ op' = "calculateHealthScore"
    /\ UNCHANGED <<nodes, arg, ui>>

NextScore == CalculateHealthScore \/ CalculateHealthScoreDefault

SpecScore == InitScore /\ [][NextScore]_vars

\* The latestVersion the call of this state scored against.
ScoredAgainst == IF arg.given THEN arg.latestVersion ELSE DefaultLatestVersion

\* The sum of the uptime, version and public-access terms, as the claims state them.
UptimeTerm(node) == MathMin(NumMul(NumDiv(Lit(node.uptime), Lit(30)), Lit(40)), Lit(40))
VersionTerm(node, latestVersion) == IF node.version = latestVersion THEN Lit(20) ELSE Lit(10)
PublicTerm(node) == IF node.isPublic THEN Lit(15) ELSE Lit(5)
StorageTerm(node) == Fin(node.storageCommitted * 25, node.storageTotal)

\* C1: for non-negative uptime, storageCommitted and storageTotal (storageTotal = 0
\* and storageCommitted > storageTotal included) and every latestVersion,
\* calculateHealthScore returns an integer in 0..100, never NaN.
C1_ScoreIsIntegerInRange ==
    (op = "calculateHealthScore"
        /\ nodes[1].uptime >= 0 /\ nodes[1].storageCommitted >= 0
        /\ nodes[1].storageTotal >= 0)
    => (IsFinite(ret) /\ ret.d = 1 /\ ret.n >= 0 /\ ret.n <= 100)

\* C2: with storageTotal <= 0 the storage term contributes 0, so the score is the
\* rounded, capped sum of the other three terms; uptime 30, storageTotal 0, latest
\* version and public give 75.
C2_ZeroTotalContributesZero ==
    (op = "calculateHealthScore" /\ nodes[1].storageTotal <= 0)
    => /\ ret = MathRound(MathMin(
                    NumAdd(UptimeTerm(nodes[1]),
                           NumAdd(VersionTerm(nodes[1], ScoredAgainst), PublicTerm(nodes[1]))),
                    Lit(100)))
       /\ (nodes[1].uptime = 30 /\ nodes[1].version = ScoredAgainst /\ nodes[1].isPublic)
            => ret = Lit(75)

\* C3: with storageTotal > 0 the score is round(min(U + S + V + P, 100)); uptime 30,
\* committed = total, latest version and public give 100; an uptime of 30 days or
\* more contributes exactly 40.
C3_ScoreFormula ==
    (op = "calculateHealthScore" /\ nodes[1].storageTotal > 0)
    => LET n == nodes[1]
           VP == NumAdd(VersionTerm(n, ScoredAgainst), PublicTerm(n))
       IN  /\ ret = MathRound(MathMin(
                        NumAdd(UptimeTerm(n), NumAdd(StorageTerm(n), VP)), Lit(100)))
           /\ (n.uptime = 30 /\ n.storageCommitted = n.storageTotal
                 /\ n.version = ScoredAgainst /\ n.isPublic) => ret = Lit(100)
           /\ n.uptime >= 30
                => ret = MathRound(MathMin(
                             NumAdd(Lit(40), NumAdd(StorageTerm(n), VP)), Lit(100)))

C3_Witness ==
    /\ op = "calculateHealthScore"
    /\ nodes[1].uptime = 30 /\ nodes[1].storageTotal > 0
    /\ nodes[1].storageCommitted = nodes[1].storageTotal
    /\ nodes[1].version = ScoredAgainst /\ nodes[1].isPublic
    /\ ret = Lit(100)

(***************************************************************************)
(* Input lists.                                                            *)
(***************************************************************************)
\* Every list of at most n elements of S.
Lists(S, n) == UNION {[1..m -> S] : m \in 0..n}

PubKeyNames ==
    <<"pk1", "pk2", "pk3", "pk4", "pk5", "pk6", "pk7", "pk8", "pk9", "pk10",
      "pk11", "pk12">>

\* The list with the pubkeys made unique: element i gets the i-th pubkey.
Keyed(list) == [i \in 1..Len(list) |-> [list[i] EXCEPT !.pubkey = PubKeyNames[i]]]

(***************************************************************************)
(* SpecCompare: compareVersions on a pair of strings.                      *)
(***************************************************************************)
VersionAlphabet == {"0", "1", ".", "v"}

\* Well-formed and malformed version strings beyond the enumerated ones.
VersionSamples ==
    {V_1_0_0, V_2_0_0, DefaultLatestVersion,
     <<"v", "1", ".", "0", ".", "0">>, <<"V", "1", ".", "0", ".", "0">>,
     <<"V", "2">>, <<"1", ".", "1", "0", ".", "0">>, <<"1", ".", "9", ".", "0">>,
     <<"x", ".", "y", ".", "z">>, <<"-", "1">>, <<"1", ".", "-", "1">>,
     <<"1", ".", "0", ".", "0", "-", "r", "c">>,
     <<"I", "n", "f", "i", "n", "i", "t", "y">>,
     <<"1", ".", "I", "n", "f", "i", "n", "i", "t", "y">>}

VersionStrings == Lists(VersionAlphabet, MaxVerLen) \cup VersionSamples

InitCompare ==
    /\ nodes = <<>>
    /\ arg \in [a : VersionStrings, b : VersionStrings]
    /\ op = "init"
    /\ ret = Undefined
    /\ ui = NoComponent

\* compareVersions(a, b)
CompareVersions ==
    /\ op = "init"
    /\ ret' = compareVersions(arg.a, arg.b)
    /\ op' = "compareVersions"
    /\ UNCHANGED <<nodes, arg, ui>>

NextCompare == CompareVersions

SpecCompare == InitCompare /\ [][NextCompare]_vars

\* C7: compareVersions returns -1, 0 or 1; compareVersions(a, b) = -compareVersions(b, a)
\* and compareVersions(a, a) = 0 for all strings, malformed ones included; missing
\* trailing components count as 0 ('1.0' equals '1.0.0').
C7_CompareAntisymmetric ==
    op = "compareVersions"
    => /\ ret \in {-1, 0, 1}
       /\ ret = -compareVersions(arg.b, arg.a)
       /\ arg.a = arg.b => ret = 0
       /\ arg.b = arg.a \o <<".", "0">> => ret = 0
       /\ (arg.a = V_1_0 /\ arg.b = V_1_0_0) => ret = 0

C7_Witness ==
    /\ op = "compareVersions"
    /\ arg.a = <<"v", "1", ".", "0", ".", "0">>
    /\ arg.b = <<"x", ".", "y", ".", "z">>
    /\ ret = 1

(***************************************************************************)
(* SpecLatest: getLatestVersion on a node list.                            *)
(***************************************************************************)
LatestVersions ==
    {V_1_0, V_1_0_0, <<"v", "1", ".", "0", ".", "0">>, V_2_0_0, <<"V", "2">>,
     DefaultLatestVersion, <<"x", ".", "y", ".", "z">>, <<"0">>}

LatestNodes == {MkNode("pk", "online", v, 0, 0, 0, TRUE, 0, Undefined) : v \in LatestVersions}

InitLatest ==
    /\ nodes \in {Keyed(l) : l \in Lists(LatestNodes, MaxNodes)}
    /\ arg = <<>>
    /\ op = "init"
    /\ ret = Undefined
    /\ ui = NoComponent

\* getLatestVersion(inputNodes)
GetLatestVersion ==
    /\ op = "init"
    /\ ret' = getLatestVersion(nodes)
    /\ op' = "getLatestVersion"
    /\ UNCHANGED <<nodes, arg, ui>>

NextLatest == GetLatestVersion

SpecLatest == InitLatest /\ [][NextLatest]_vars

\* C8: getLatestVersion returns '0.0.0' for the empty list; otherwise a version v of
\* the list with compareVersions(v, w) >= 0 for every node version w, and among the
\* versions that compare equal to that maximum the first in input order.
C8_LatestIsFirstMaximum ==
    op = "getLatestVersion"
    => /\ nodes = <<>> => ret = <<"0", ".", "0", ".", "0">>
       /\ nodes # <<>>
            => /\ \A j \in 1..Len(nodes) : compareVersions(ret, nodes[j].version) >= 0
               /\ LET maxima == {j \in 1..Len(nodes) :
                                    \A m \in 1..Len(nodes) :
                                        compareVersions(nodes[j].version, nodes[m].version) >= 0}
                  IN  /\ maxima # {}
                      /\ \E j \in maxima :
                            /\ \A m \in maxima : j <= m
                            /\ ret = nodes[j].version

\* Two different strings compare equal to the maximum, and the first was returned.
C8_Witness ==
    /\ op = "getLatestVersion"
    /\ Len(nodes) >= 3
    /\ ret = nodes[2].version
    /\ nodes[3].version # ret
    /\ compareVersions(nodes[3].version, ret) = 0
    /\ compareVersions(nodes[1].version, ret) < 0

(***************************************************************************)
(* Ranker.                                                                 *)
(***************************************************************************)
\* (a, b) => (b.healthScore || 0) - (a.healthScore || 0)
ByHealthDesc(a, b) == NumSub(OrZero(b.healthScore), OrZero(a.healthScore))

\* Array.prototype.sort is stable: an element goes before the first element of the
\* sorted prefix that the comparator orders after it, and behind its equals.
RECURSIVE InsertStable(_, _)
InsertStable(sorted, x) ==
    IF sorted = <<>> THEN <<x>>
    ELSE IF NumLess(Lit(0), ByHealthDesc(Head(sorted), x)) THEN <<x>> \o sorted
    ELSE <<Head(sorted)>> \o InsertStable(Tail(sorted), x)

RECURSIVE StableSort(_)
StableSort(list) ==
    IF list = <<>> THEN <<>>
    ELSE InsertStable(StableSort(SubSeq(list, 1, Len(list) - 1)), list[Len(list)])

\* nodes.sort(...) without the copy: the caller's array is sorted too.
SortedCopy_InPlace(list) == [source |-> StableSort(list), sorted |-> StableSort(list)]

\* [...nodes].sort(...): the caller's array after the statement, and the sorted copy.
SortedCopy(list) == [source |-> list, sorted |-> StableSort(list)]

PercentileGroup(percentileRank) ==
    IF NumGeq(percentileRank, Lit(90)) THEN "Top 10%"
    ELSE IF NumGeq(percentileRank, Lit(75)) THEN "Top 25%"
    ELSE IF NumGeq(percentileRank, Lit(50)) THEN "Top 50%"
    ELSE "Bottom 50%"

\* rankNodes with rank = index.
rankNodes_RankFromZero(list) ==
    LET sorted == SortedCopy(list).sorted
        total == IF Len(sorted) = 0 THEN 1 ELSE Len(sorted)
    IN  [i \in 1..Len(sorted) |->
            LET percentileRank == NumMul(NumDiv(Lit(total - (i - 1)), Lit(total)), Lit(100))
            IN  [sorted[i] EXCEPT !.rank = Lit(i - 1),
                                  !.percentile = PercentileGroup(percentileRank),
                                  !.percentileRank = percentileRank]]

\* rankNodes with percentileRank = (total - index - 1) / total * 100.
rankNodes_PercentileOffByOne(list) ==
    LET sorted == SortedCopy(list).sorted
        total == IF Len(sorted) = 0 THEN 1 ELSE Len(sorted)
    IN  [i \in 1..Len(sorted) |->
            LET percentileRank == NumMul(NumDiv(Lit(total - (i - 1) - 1), Lit(total)), Lit(100))
            IN  [sorted[i] EXCEPT !.rank = Lit(i),
                                  !.percentile = PercentileGroup(percentileRank),
                                  !.percentileRank = percentileRank]]

\* Element i of the model is index i - 1 of the code.
rankNodes(list) ==
    LET sorted == SortedCopy(list).sorted
        total == IF Len(sorted) = 0 THEN 1 ELSE Len(sorted)
    IN  [i \in 1..Len(sorted) |->
            LET index == i - 1
                percentileRank == NumMul(NumDiv(Lit(total - index), Lit(total)), Lit(100))
            IN  [sorted[i] EXCEPT !.rank = Lit(index + 1),
                                  !.percentile = PercentileGroup(percentileRank),
                                  !.percentileRank = percentileRank]]

(***************************************************************************)
(* SpecRank: rankNodes on a node list.  Short lists carry every kind of    *)
(* healthScore (missing, NaN, 0, positive); long lists, needed for the     *)
(* percentile buckets, carry two scores.                                   *)
(***************************************************************************)
RankScores == {Undefined, NaN, Lit(0), Lit(50), Lit(100)}
LongListScores == {Lit(50), Lit(100)}

RankNode(hs) == MkNode("pk", "online", V_1_0_0, 0, 0, 0, TRUE, 0, hs)

RankInputs ==
    {Keyed(l) : l \in Lists({RankNode(hs) : hs \in RankScores}, MaxNodes)}
        \cup {Keyed(l) : l \in UNION {[1..m -> {RankNode(hs) : hs \in LongListScores}] :
                                          m \in (MaxNodes + 1)..MaxRanked}}

InitRank ==
    /\ nodes \in RankInputs
    /\ arg = <<>>
    /\ op = "init"
    /\ ret = Undefined
    /\ ui = NoComponent

\* rankNodes(nodes)
RankNodes ==
    /\ op = "init"
    /\ ret' = rankNodes(nodes)
    /\ nodes' = SortedCopy(nodes).source
    /\ op' = "rankNodes"
    /\ UNCHANGED <<arg, ui>>

NextRank == RankNodes

SpecRank == InitRank /\ [][NextRank]_vars

\* A ranked node without what rankNodes added.
Unranked(n) ==
    [n EXCEPT !.rank = Undefined, !.percentile = "undefined", !.percentileRank = Undefined]

Occurrences(x, list) == Cardinality({i \in 1..Len(list) : list[i] = x})

\* The healthScore a node is sorted by: a missing one counts as 0.
SortKey(n) == IF n.healthScore.k = "fin" THEN n.healthScore.n ELSE 0

\* C4: rankNodes returns N nodes, a permutation of the N input nodes (none lost or
\* duplicated), and the node at output position i (0-based) has rank i + 1.
C4_RankIsPermutation ==
    op = "rankNodes"
    => /\ Len(ret) = Len(nodes)
       /\ \A i \in 1..Len(nodes) :
            /\ Occurrences(nodes[i], [j \in 1..Len(ret) |-> Unranked(ret[j])])
                 = Occurrences(nodes[i], nodes)
            /\ ret[i].rank = Lit(i)
       /\ {ret[i].rank.n : i \in 1..Len(ret)} = 1..Len(nodes)

C4_Witness ==
    /\ op = "rankNodes"
    /\ Len(nodes) = 3
    /\ ret[1].pubkey = "pk3" /\ ret[2].pubkey = "pk1" /\ ret[3].pubkey = "pk2"
    /\ ret[3].rank = Lit(3)

\* C5: the output of rankNodes is ordered by healthScore descending (a missing score
\* counts as 0), nodes with equal scores keep their relative input order, and the
\* input list is left as it was.
C5_StableDescendingSort ==
    [][op' = "rankNodes"
        => /\ nodes' = nodes
           /\ \A i, j \in 1..Len(ret') :
                i < j => /\ SortKey(ret'[i]) >= SortKey(ret'[j])
                         /\ SortKey(ret'[i]) = SortKey(ret'[j])
                              => \E a, b \in 1..Len(nodes) :
                                    /\ a < b
                                    /\ nodes[a] = Unranked(ret'[i])
                                    /\ nodes[b] = Unranked(ret'[j])]_vars

\* An unsorted input with a tie between a missing score and a score of 0.
C5_Witness ==
    /\ op = "rankNodes"
    /\ Len(nodes) = 3
    /\ nodes[1].healthScore = Undefined
    /\ nodes[2].healthScore = Lit(50)
    /\ nodes[3].healthScore = Lit(0)
    /\ ret[1].pubkey = "pk2" /\ ret[2].pubkey = "pk1" /\ ret[3].pubkey = "pk3"

BucketOrder(label) ==
    CASE label = "Top 10%" -> 1 [] label = "Top 25%" -> 2
      [] label = "Top 50%" -> 3 [] label = "Bottom 50%" -> 4

\* C6: with N >= 1 nodes the node of rank r has percentileRank (N - (r - 1)) / N * 100
\* (100 for the top node, 100 / N for the last); its label is 'Top 10%' from 90,
\* 'Top 25%' from 75, 'Top 50%' from 50, else 'Bottom 50%'; a better rank never has a
\* worse bucket.
C6_PercentileOfRank ==
    (op = "rankNodes" /\ Len(ret) >= 1)
    => LET N == Len(ret)
       IN  /\ \A i \in 1..N :
                LET r == ret[i].rank.n
                    hundredths == (N - (r - 1)) * 100
                IN  /\ ret[i].percentileRank = Fin(hundredths, N)
                    /\ ret[i].percentile =
                         (IF hundredths >= 90 * N THEN "Top 10%"
                          ELSE IF hundredths >= 75 * N THEN "Top 25%"
                          ELSE IF hundredths >= 50 * N THEN "Top 50%"
                          ELSE "Bottom 50%")
           /\ ret[1].percentileRank = Lit(100)
           /\ ret[N].percentileRank = Fin(100, N)
           /\ \A i, j \in 1..N :
                ret[i].rank.n < ret[j].rank.n
                    => BucketOrder(ret[i].percentile) <= BucketOrder(ret[j].percentile)

\* Ten nodes: every bucket occurs.
C6_Witness ==
    /\ op = "rankNodes"
    /\ Len(ret) = 10
    /\ ret[1].percentile = "Top 10%" /\ ret[2].percentile = "Top 10%"
    /\ ret[3].percentile = "Top 25%" /\ ret[4].percentile = "Top 50%"
    /\ ret[6].percentile = "Top 50%" /\ ret[7].percentile = "Bottom 50%"
    /\ ret[10].percentileRank = Lit(10)

(***************************************************************************)
(* Network aggregator.                                                     *)
(***************************************************************************)
IsOnline(node) == node.status = "online"
IsPublic(node) == node.isPublic

\* xs.reduce((sum, x) => sum + x, 0)
RECURSIVE SumNums(_)
SumNums(xs) ==
    IF xs = <<>> THEN Lit(0)
    ELSE NumAdd(SumNums(SubSeq(xs, 1, Len(xs) - 1)), xs[Len(xs)])

\* The record getNetworkStats returns for the nodes `all`, its online-only figures
\* computed over `onlineNodes` and the averages divided by `divisor`.
StatsRecord(all, onlineNodes, divisor) ==
    LET totalStorage ==
            SumNums([i \in 1..Len(onlineNodes) |-> Lit(onlineNodes[i].storageTotal)])
        usedStorage ==
            SumNums([i \in 1..Len(onlineNodes) |-> Lit(onlineNodes[i].storageUsed)])
        avgUptime ==
            NumDiv(SumNums([i \in 1..Len(onlineNodes) |-> Lit(onlineNodes[i].uptime)]),
                   Lit(divisor))
        publicNodes == Len(SelectSeq(onlineNodes, IsPublic))
        avgHealthScore ==
            NumDiv(SumNums([i \in 1..Len(onlineNodes) |->
                                NullishZero(onlineNodes[i].healthScore)]),
                   Lit(divisor))
        latestVersion == getLatestVersion(all)
    IN  [totalNodes |-> Lit(Len(all)),
         onlineNodes |-> Lit(Len(onlineNodes)),
         offlineNodes |-> Lit(Len(all) - Len(onlineNodes)),
         totalStorage |-> totalStorage,
         usedStorage |-> usedStorage,
         storageUtilization |->
            IF NumLess(Lit(0), totalStorage)
            THEN NumMul(NumDiv(usedStorage, totalStorage), Lit(100))
            ELSE Lit(0),
         avgUptime |-> avgUptime,
         avgHealthScore |-> avgHealthScore,
         publicNodes |-> Lit(publicNodes),
         privateNodes |-> Lit(Len(onlineNodes) - publicNodes),
         latestVersion |-> latestVersion]

\* getNetworkStats dividing by onlineNodes.length, without the || 1.
getNetworkStats_NoZeroGuard(list) ==
    StatsRecord(list, SelectSeq(list, IsOnline), Len(SelectSeq(list, IsOnline)))

\* getNetworkStats aggregating over every node, without the status filter.
getNetworkStats_NoFilter(list) ==
    StatsRecord(list, list, IF Len(list) = 0 THEN 1 ELSE Len(list))

getNetworkStats(list) ==
    LET onlineNodes == SelectSeq(list, IsOnline)
    IN  StatsRecord(list, onlineNodes, IF Len(onlineNodes) = 0 THEN 1 ELSE Len(onlineNodes))

(***************************************************************************)
(* SpecStats: getNetworkStats on a node list.                              *)
(***************************************************************************)
\* used / total / uptime / healthScore / version of the nodes of this specification.
StatsProfiles ==
    {[storageUsed |-> 1, storageTotal |-> 2, uptime |-> 3, healthScore |-> Lit(50),
      version |-> V_1_0_0],
     [storageUsed |-> 0, storageTotal |-> 0, uptime |-> 0, healthScore |-> Undefined,
      version |-> V_2_0_0],
     [storageUsed |-> 2, storageTotal |-> 4, uptime |-> 7, healthScore |-> NaN,
      version |-> V_1_0_0]}

StatsNodes ==
    {MkNode("pk", st, f.version, f.storageUsed, f.storageTotal, f.uptime, pub, 0,
            f.healthScore) :
        st \in {"online", "offline"}, f \in StatsProfiles, pub \in BOOLEAN}

InitStats ==
    /\ nodes \in {Keyed(l) : l \in Lists(StatsNodes, MaxNodes)}
    /\ arg = <<>>
    /\ op = "init"
    /\ ret = Undefined
    /\ ui = NoComponent

\* getNetworkStats(nodes)
GetNetworkStats ==
    /\ op = "init"
    /\ ret' = getNetworkStats(nodes)
    /\ op' = "getNetworkStats"
    /\ UNCHANGED <<nodes, arg, ui>>

NextStats == GetNetworkStats

SpecStats == InitStats /\ [][NextStats]_vars

OnlineIndexes == {i \in 1..Len(nodes) : nodes[i].status = "online"}

\* C9: getNetworkStats([]) has totalNodes, onlineNodes, offlineNodes, totalStorage,
\* usedStorage, storageUtilization, avgUptime, avgHealthScore, publicNodes and
\* privateNodes all 0; for any list without an online node avgUptime, avgHealthScore
\* and storageUtilization are 0, never NaN or Infinity.
C9_NoOnlineNodeGivesZeros ==
    op = "getNetworkStats"
    => /\ nodes = <<>>
            => \A f \in {"totalNodes", "onlineNodes", "offlineNodes", "totalStorage",
                         "usedStorage", "storageUtilization", "avgUptime",
                         "avgHealthScore", "publicNodes", "privateNodes"} :
                    ret[f] = Lit(0)
       /\ OnlineIndexes = {}
            => /\ ret.avgUptime = Lit(0)
               /\ ret.avgHealthScore = Lit(0)
               /\ ret.storageUtilization = Lit(0)

\* Offline nodes only, with storage, uptime and a health score.
C9_Witness ==
    /\ op = "getNetworkStats"
    /\ Len(nodes) = 2
    /\ OnlineIndexes = {}
    /\ nodes[1].storageTotal > 0 /\ nodes[1].uptime > 0
    /\ nodes[2].healthScore = NaN
    /\ ret.avgUptime = Lit(0)

\* The node list with node i replaced by m (under node i's pubkey).
Replaced(list, i, m) == [list EXCEPT ![i] = [m EXCEPT !.pubkey = list[i].pubkey]]

\* C10: totalNodes is the number of nodes, onlineNodes the number of online nodes,
\* onlineNodes + offlineNodes = totalNodes, publicNodes + privateNodes = onlineNodes,
\* and the storage and average figures are taken over the online nodes only: changing
\* any field of an offline node other than its status or version changes no statistic.
C10_StatsOverOnlineNodes ==
    op = "getNetworkStats"
    => /\ ret.totalNodes = Lit(Len(nodes))
       /\ ret.onlineNodes = Lit(Cardinality(OnlineIndexes))
       /\ NumAdd(ret.onlineNodes, ret.offlineNodes) = ret.totalNodes
       /\ NumAdd(ret.publicNodes, ret.privateNodes) = ret.onlineNodes
       /\ ret.publicNodes = Lit(Cardinality({i \in OnlineIndexes : nodes[i].isPublic}))
       /\ \A f \in {"totalStorage", "usedStorage", "avgUptime", "avgHealthScore"} :
            ret[f] = getNetworkStats(SelectSeq(nodes, IsOnline))[f]
       /\ \A i \in (1..Len(nodes)) \ OnlineIndexes :
            \A m \in StatsNodes :
                (m.status = "offline" /\ m.version = nodes[i].version)
                    => getNetworkStats(Replaced(nodes, i, m)) = ret

\* An online and an offline node, the offline one with storage, uptime and a score.
C10_Witness ==
    /\ op = "getNetworkStats"
    /\ Len(nodes) = 3
    /\ nodes[1].status = "online" /\ nodes[1].storageTotal = 2
    /\ nodes[2].status = "offline" /\ nodes[2].storageTotal = 4 /\ nodes[2].isPublic
    /\ nodes[3].status = "online" /\ nodes[3].storageTotal = 0
    /\ ret.totalStorage = Lit(2)
    /\ ret.offlineNodes = Lit(1)
    /\ ret.avgUptime = Fin(3, 2)

(***************************************************************************)
(* Version distribution.                                                   *)
(***************************************************************************)
\* The keys of versionMap in insertion order: each version at its first occurrence.
VersionKeys(list) ==
    LET firsts == {i \in 1..Len(list) : \A j \in 1..(i - 1) : list[j].version # list[i].version}
        isFirst(n) == \E i \in firsts : list[i] = n
    IN  [i \in 1..Len(SelectSeq(list, isFirst)) |-> SelectSeq(list, isFirst)[i].version]

\* versionMap.get(version) after the forEach
VersionCount(list, version) == Cardinality({i \in 1..Len(list) : list[i].version = version})

\* getNodesByVersion with the percentage taken over the online nodes.
getNodesByVersion_OverOnline(list) ==
    LET keys == VersionKeys(list)
    IN  [i \in 1..Len(keys) |->
            [version |-> keys[i],
             count |-> Lit(VersionCount(list, keys[i])),
             percentage |->
                NumMul(NumDiv(Lit(VersionCount(list, keys[i])),
                              Lit(Len(SelectSeq(list, IsOnline)))), Lit(100))]]

getNodesByVersion(list) ==
    LET keys == VersionKeys(list)
    IN  [i \in 1..Len(keys) |->
            [version |-> keys[i],
             count |-> Lit(VersionCount(list, keys[i])),
             percentage |->
                NumMul(NumDiv(Lit(VersionCount(list, keys[i])), Lit(Len(list))), Lit(100))]]

(***************************************************************************)
(* SpecDist: getNodesByVersion on a node list.                             *)
(***************************************************************************)
DistNodes ==
    {MkNode("pk", st, v, 0, 0, 0, TRUE, 0, Undefined) :
        st \in {"online", "offline"}, v \in {V_1_0_0, V_1_0, V_2_0_0}}

InitDist ==
    /\ nodes \in {Keyed(l) : l \in Lists(DistNodes, MaxDistNodes)}
    /\ arg = <<>>
    /\ op = "init"
    /\ ret = Undefined
    /\ ui = NoComponent

\* getNodesByVersion(nodes)
GetNodesByVersion ==
    /\ op = "init"
    /\ ret' = getNodesByVersion(nodes)
    /\ op' = "getNodesByVersion"
    /\ UNCHANGED <<nodes, arg, ui>>

NextDist == GetNodesByVersion

SpecDist == InitDist /\ [][NextDist]_vars

RECURSIVE SumCounts(_)
SumCounts(entries) ==
    IF entries = <<>> THEN 0 ELSE entries[1].count.n + SumCounts(Tail(entries))

\* C11: getNodesByVersion has one entry per distinct version string (exact match),
\* the counts sum to the number of nodes (online and offline), each percentage is
\* count / total * 100 (3 of 4 gives 75, 1 of 4 gives 25), and an empty input gives
\* no division by zero and no NaN percentage.
C11_VersionDistribution ==
    op = "getNodesByVersion"
    => /\ {ret[i].version : i \in 1..Len(ret)} = {nodes[j].version : j \in 1..Len(nodes)}
       /\ Len(ret) = Cardinality({nodes[j].version : j \in 1..Len(nodes)})
       /\ SumCounts(ret) = Len(nodes)
       /\ \A i \in 1..Len(ret) :
            /\ IsFinite(ret[i].percentage)
            /\ ret[i].count.n = Cardinality({j \in 1..Len(nodes) : nodes[j].version = ret[i].version})
            /\ ret[i].percentage = Fin(ret[i].count.n * 100, Len(nodes))
            /\ (ret[i].count.n = 3 /\ Len(nodes) = 4) => ret[i].percentage = Lit(75)
            /\ (ret[i].count.n = 1 /\ Len(nodes) = 4) => ret[i].percentage = Lit(25)
       /\ nodes = <<>> => ret = <<>>

\* Four nodes, three on 1.0.0 (one of them offline) and one on 2.0.0.
C11_Witness ==
    /\ op = "getNodesByVersion"
    /\ Len(nodes) = 4
    /\ nodes[2].status = "offline"
    /\ ret = <<[version |-> V_1_0_0, count |-> Lit(3), percentage |-> Lit(75)],
               [version |-> V_2_0_0, count |-> Lit(1), percentage |-> Lit(25)]>>

(***************************************************************************)
(* JavaScript values and objects of the import and export libraries        *)
(* (src/src/lib/import.ts, src/src/lib/export.ts).  A value carries its    *)
(* type tag t; an object is the list of its own properties in insertion    *)
(* order.                                                                  *)
(***************************************************************************)
\* Every value has the same fields; only the one its tag names is meaningful.
JsUndefined ==
    [t |-> "undefined", str |-> <<>>, num |-> NaN, bool |-> FALSE, items |-> <<>>, entries |-> <<>>]
JsNull == [JsUndefined EXCEPT !.t = "null"]
Str(s) == [JsUndefined EXCEPT !.t = "string", !.str = s]
Num(x) == [JsUndefined EXCEPT !.t = "number", !.num = x]
Bool(b) == [JsUndefined EXCEPT !.t = "boolean", !.bool = b]
Arr(elements) == [JsUndefined EXCEPT !.t = "array", !.items = elements]
Obj(entries) == [JsUndefined EXCEPT !.t = "object", !.entries = entries]

HasKey(obj, key) == \E i \in 1..Len(obj) : obj[i].key = key

\* obj[key]
ObjGet(obj, key) ==
    IF HasKey(obj, key)
    THEN obj[CHOOSE i \in 1..Len(obj) : obj[i].key = key].value
    ELSE JsUndefined

\* obj[key] = value: an existing property keeps its position.
ObjSet(obj, key, value) ==
    IF HasKey(obj, key)
    THEN [i \in 1..Len(obj) |-> IF obj[i].key = key THEN [key |-> key, value |-> value] ELSE obj[i]]
    ELSE Append(obj, [key |-> key, value |-> value])

Whitespace == {" ", "\t", "\n", "\r"}

\* s.trim()
RECURSIVE Trim(_)
Trim(s) ==
    IF s = <<>> THEN s
    ELSE IF Head(s) \in Whitespace THEN Trim(Tail(s))
    ELSE IF s[Len(s)] \in Whitespace THEN Trim(SubSeq(s, 1, Len(s) - 1))
    ELSE s

\* content.split(/\r?\n/)
RECURSIVE SplitLines(_)
SplitLines(s) ==
    LET nls == {i \in 1..Len(s) : s[i] = "\n"}
    IN  IF nls = {} THEN <<s>>
        ELSE LET i == CHOOSE j \in nls : \A m \in nls : j <= m
                 last == IF i > 1 /\ s[i - 1] = "\r" THEN i - 2 ELSE i - 1
             IN  <<SubSeq(s, 1, last)>> \o SplitLines(SubSeq(s, i + 1, Len(s)))

\* The for loop of parseCSVLine from index i on (i is 1-based here).
RECURSIVE CSVLineLoop(_, _, _, _, _)
CSVLineLoop(line, i, current, inQuotes, result) ==
    IF i > Len(line) THEN Append(result, current)
    ELSE LET char == line[i]
             nextIsQuote == i + 1 <= Len(line) /\ line[i + 1] = "\""
         IN  IF inQuotes
             THEN IF char = "\"" /\ nextIsQuote
                  THEN CSVLineLoop(line, i + 2, Append(current, "\""), TRUE, result)
                  ELSE IF char = "\""
                  THEN CSVLineLoop(line, i + 1, current, FALSE, result)
                  ELSE CSVLineLoop(line, i + 1, Append(current, char), TRUE, result)
             ELSE IF char = "\""
                  THEN CSVLineLoop(line, i + 1, current, TRUE, result)
                  ELSE IF char = ","
                  THEN CSVLineLoop(line, i + 1, <<>>, FALSE, Append(result, current))
                  ELSE CSVLineLoop(line, i + 1, Append(current, char), FALSE, result)

parseCSVLine(line) == CSVLineLoop(line, 1, <<>>, FALSE, <<>>)

\* headers.forEach((header, idx) => obj[header.trim()] = values[idx]?.trim() ?? '')
\* from header idx on.
RECURSIVE RowObject(_, _, _, _)
RowObject(headers, values, idx, obj) ==
    IF idx > Len(headers) THEN obj
    ELSE RowObject(headers, values, idx + 1,
                   ObjSet(obj, Trim(headers[idx]),
                          Str(IF idx <= Len(values) THEN Trim(values[idx]) ELSE <<>>)))

\* filter(line => line.trim())
IsKeptLine(line) == Trim(line) # <<>>

\* not (values.length === 0 || (values.length === 1 && values[0] === ''))
IsDataRow(values) == ~(values = <<>> \/ (Len(values) = 1 /\ values[1] = <<>>))

parseCSV(content) ==
    LET lines == SelectSeq(SplitLines(content), IsKeptLine)
    IN  IF Len(lines) < 1 THEN <<>>
        ELSE LET headers == parseCSVLine(lines[1])
                 parsed == [i \in 1..(Len(lines) - 1) |-> parseCSVLine(lines[i + 1])]
                 kept == SelectSeq(parsed, IsDataRow)
             IN  [i \in 1..Len(kept) |-> Obj(RowObject(headers, kept[i], 1, <<>>))]

(***************************************************************************)
(* SpecCsv: parseCSV on CSV texts of a header line and one or two records  *)
(* of two fields, each field written with standard quoting.                *)
(***************************************************************************)
CsvAlphabet == {"a", ",", "\"", "\n"}
CsvValues == Lists(CsvAlphabet, MaxFieldLen)

RECURSIVE DoubleQuotes(_)
DoubleQuotes(s) ==
    IF s = <<>> THEN <<>>
    ELSE (IF Head(s) = "\"" THEN <<"\"", "\"">> ELSE <<Head(s)>>) \o DoubleQuotes(Tail(s))

\* A field as a standard CSV writer puts it: quoted when it holds a comma, a
\* quote or a line break, quotes doubled.
CsvField(value) ==
    IF \E i \in 1..Len(value) : value[i] \in {",", "\"", "\n", "\r"}
    THEN <<"\"">> \o DoubleQuotes(value) \o <<"\"">>
    ELSE value

CsvRecord(fields) == CsvField(fields[1]) \o <<",">> \o CsvField(fields[2])

CsvHeader == <<"p", ",", "q">>

RECURSIVE CsvText(_)
CsvText(records) ==
    IF records = <<>> THEN CsvHeader
    ELSE CsvText(SubSeq(records, 1, Len(records) - 1)) \o <<"\n">> \o CsvRecord(records[Len(records)])

CsvInputs ==
    {<<r>> : r \in CsvValues \X CsvValues}
    \cup {<<r, t>> : r \in CsvValues \X CsvValues, t \in {<<"a">>, <<"\n">>} \X {<<"a">>, <<"\n">>}}

InitCsv ==
    /\ nodes = <<>>
    /\ arg \in {[records |-> rs, content |-> CsvText(rs)] : rs \in CsvInputs}
    /\ op = "init"
    /\ ret = Undefined
    /\ ui = NoComponent

\* parseCSV(content)
ParseCSV ==
    /\ op = "init"
    /\ ret' = parseCSV(arg.content)
    /\ op' = "parseCSV"
    /\ UNCHANGED <<nodes, arg, ui>>

NextCsv == ParseCSV

SpecCsv == InitCsv /\ [][NextCsv]_vars

\* C12: the import CSV parser recovers a quoted field holding commas, doubled
\* quotes or literal newlines as one field of one row with its content intact, and
\* parses as many rows as the text has CSV records, not physical lines.
C12_QuotedFieldsRecovered ==
    op = "parseCSV"
    => /\ Len(ret) = Len(arg.records)
       /\ \A i \in 1..Len(ret) :
            ret[i] = Obj(<<[key |-> <<"p">>, value |-> Str(arg.records[i][1])],
                           [key |-> <<"q">>, value |-> Str(arg.records[i][2])]>>)

\* The part of C12 the code keeps: quoted commas and doubled quotes.
C12_QuotedCommasAndQuotesRecovered ==
    (op = "parseCSV" /\ \A i \in 1..Len(arg.content) : arg.content[i] = "\n" => i = 4)
    => ret = <<Obj(<<[key |-> <<"p">>, value |-> Str(arg.records[1][1])],
                     [key |-> <<"q">>, value |-> Str(arg.records[1][2])]>>)>>

(***************************************************************************)
(* JSON.parse on character sequences: whitespace, numbers, strings with    *)
(* the escapes \" \\ \/ \n \r \t, the literals true, false and null,       *)
(* arrays and objects.  A parse step returns [ok, val, pos]: whether it    *)
(* succeeded, the value read and the index after it.                       *)
(***************************************************************************)
JsonFail == [ok |-> FALSE, pos |-> 0, val |-> JsUndefined]
JsonOk(val, pos) == [ok |-> TRUE, pos |-> pos, val |-> val]

\* "" stands for the end of the text.
CharAt(s, i) == IF i >= 1 /\ i <= Len(s) THEN s[i] ELSE ""

MatchAt(s, i, word) ==
    i + Len(word) - 1 <= Len(s) /\ SubSeq(s, i, i + Len(word) - 1) = word

RECURSIVE SkipWs(_, _)
SkipWs(s, i) == IF CharAt(s, i) \in Whitespace THEN SkipWs(s, i + 1) ELSE i

RECURSIVE DigitsEnd(_, _)
DigitsEnd(s, i) == IF CharAt(s, i) \in Digits THEN DigitsEnd(s, i + 1) ELSE i

RECURSIVE Pow10(_)
Pow10(n) == IF n = 0 THEN 1 ELSE 10 * Pow10(n - 1)

\* -? (0 | [1-9][0-9]*) (. [0-9]+)? ([eE] [+-]? [0-9]+)?
JsonNumber(s, i) ==
    LET neg == CharAt(s, i) = "-"
        a == IF neg THEN i + 1 ELSE i
        intEnd == IF CharAt(s, a) = "0" THEN a + 1 ELSE DigitsEnd(s, a)
        hasFrac == CharAt(s, intEnd) = "."
        fracEnd == DigitsEnd(s, intEnd + 1)
        mEnd == IF hasFrac THEN fracEnd ELSE intEnd
        hasExp == CharAt(s, mEnd) \in {"e", "E"}
        expNeg == CharAt(s, mEnd + 1) = "-"
        expStart == IF CharAt(s, mEnd + 1) \in {"+", "-"} THEN mEnd + 2 ELSE mEnd + 1
        expEnd == DigitsEnd(s, expStart)
        fracLen == IF hasFrac THEN fracEnd - intEnd - 1 ELSE 0
        digits == SubSeq(s, a, intEnd - 1) \o (IF hasFrac THEN SubSeq(s, intEnd + 1, fracEnd - 1) ELSE <<>>)
        mantissa == Fin((IF neg THEN -1 ELSE 1) * DecimalValue(digits), Pow10(fracLen))
        exponent == DecimalValue(SubSeq(s, expStart, expEnd - 1))
        value == IF ~hasExp THEN mantissa
                 ELSE IF expNeg THEN NumDiv(mantissa, Lit(Pow10(exponent)))
                 ELSE NumMul(mantissa, Lit(Pow10(exponent)))
    IN  IF intEnd = a \/ (hasFrac /\ fracEnd = intEnd + 1) \/ (hasExp /\ expEnd = expStart)
        THEN JsonFail
        ELSE JsonOk(Num(value), IF hasExp THEN expEnd ELSE mEnd)

JsonEscapes == {"\"", "\\", "/", "n", "r", "t"}
Unescape(c) == CASE c = "n" -> "\n" [] c = "r" -> "\r" [] c = "t" -> "\t" [] OTHER -> c

\* The characters of a string from index i (after the opening quote) on.
RECURSIVE JsonStringLoop(_, _, _)
JsonStringLoop(s, i, acc) ==
    IF i > Len(s) THEN JsonFail
    ELSE IF s[i] = "\"" THEN JsonOk(Str(acc), i + 1)
    ELSE IF s[i] = "\\"
         THEN IF CharAt(s, i + 1) \in JsonEscapes
              THEN JsonStringLoop(s, i + 2, Append(acc, Unescape(s[i + 1])))
              ELSE JsonFail
    ELSE IF s[i] \in {"\n", "\r", "\t"} THEN JsonFail
    ELSE JsonStringLoop(s, i + 1, Append(acc, s[i]))

RECURSIVE JsonValue(_, _)
RECURSIVE JsonElements(_, _, _)
RECURSIVE JsonMembers(_, _, _)

\* The value that starts at or after index from.
JsonValue(s, from) ==
    LET i == SkipWs(s, from)
        c == CharAt(s, i)
    IN  IF c = "[" THEN
            (IF CharAt(s, SkipWs(s, i + 1)) = "]"
             THEN JsonOk(Arr(<<>>), SkipWs(s, i + 1) + 1)
             ELSE JsonElements(s, i + 1, <<>>))
        ELSE IF c = "{" THEN
            (IF CharAt(s, SkipWs(s, i + 1)) = "}"
             THEN JsonOk(Obj(<<>>), SkipWs(s, i + 1) + 1)
             ELSE JsonMembers(s, i + 1, <<>>))
        ELSE IF c = "\"" THEN JsonStringLoop(s, i + 1, <<>>)
        ELSE IF c = "-" \/ c \in Digits THEN JsonNumber(s, i)
        ELSE IF MatchAt(s, i, <<"t", "r", "u", "e">>) THEN JsonOk(Bool(TRUE), i + 4)
        ELSE IF MatchAt(s, i, <<"f", "a", "l", "s", "e">>) THEN JsonOk(Bool(FALSE), i + 5)
        ELSE IF MatchAt(s, i, <<"n", "u", "l", "l">>) THEN JsonOk(JsNull, i + 4)
        ELSE JsonFail

\* The elements of an array from index i on, acc holding those already read.
JsonElements(s, i, acc) ==
    LET e == JsonValue(s, i)
        j == SkipWs(s, e.pos)
    IN  IF ~e.ok THEN JsonFail
        ELSE IF CharAt(s, j) = "," THEN JsonElements(s, j + 1, Append(acc, e.val))
        ELSE IF CharAt(s, j) = "]" THEN JsonOk(Arr(Append(acc, e.val)), j + 1)
        ELSE JsonFail

\* The members of an object from index i on; a repeated key keeps the last value.
JsonMembers(s, i, acc) ==
    LET j == SkipWs(s, i)
        key == IF CharAt(s, j) = "\"" THEN JsonStringLoop(s, j + 1, <<>>) ELSE JsonFail
        k == SkipWs(s, key.pos)
        e == IF key.ok /\ CharAt(s, k) = ":" THEN JsonValue(s, k + 1) ELSE JsonFail
        m == SkipWs(s, e.pos)
    IN  IF ~e.ok THEN JsonFail
        ELSE IF CharAt(s, m) = "," THEN JsonMembers(s, m + 1, ObjSet(acc, key.val.str, e.val))
        ELSE IF CharAt(s, m) = "}" THEN JsonOk(Obj(ObjSet(acc, key.val.str, e.val)), m + 1)
        ELSE JsonFail

\* JSON.parse(text): ok is FALSE where JSON.parse throws a SyntaxError.
JsonParse(text) ==
    LET e == JsonValue(text, 1)
    IN  IF e.ok /\ SkipWs(text, e.pos) = Len(text) + 1 THEN e ELSE JsonFail

(***************************************************************************)
(* Format detection and parsing of an import file.  A call either returns  *)
(* a value or throws an error.                                             *)
(***************************************************************************)
Return(value) == [threw |-> FALSE, value |-> value, error |-> ""]
Throw(message) == [threw |-> TRUE, value |-> <<>>, error |-> message]

\* The property names the libraries use.
K ==
    [nodes |-> <<"n", "o", "d", "e", "s">>,
     pubkey |-> <<"p", "u", "b", "k", "e", "y">>,
     status |-> <<"s", "t", "a", "t", "u", "s">>,
     healthScore |-> <<"h", "e", "a", "l", "t", "h", "S", "c", "o", "r", "e">>,
     uptime |-> <<"u", "p", "t", "i", "m", "e">>,
     storageUsed |-> <<"s", "t", "o", "r", "a", "g", "e", "U", "s", "e", "d">>,
     storageTotal |-> <<"s", "t", "o", "r", "a", "g", "e", "T", "o", "t", "a", "l">>,
     isPublic |-> <<"i", "s", "P", "u", "b", "l", "i", "c">>,
     ip |-> <<"i", "p">>,
     rpcPort |-> <<"r", "p", "c", "P", "o", "r", "t">>,
     version |-> <<"v", "e", "r", "s", "i", "o", "n">>,
     storageCommitted |-> <<"s", "t", "o", "r", "a", "g", "e", "C", "o", "m", "m", "i", "t", "t", "e", "d">>,
     storageUsagePercent |-> <<"s", "t", "o", "r", "a", "g", "e", "U", "s", "a", "g", "e", "P", "e", "r", "c", "e", "n", "t">>,
     lastSeen |-> <<"l", "a", "s", "t", "S", "e", "e", "n">>,
     address |-> <<"a", "d", "d", "r", "e", "s", "s">>,
     lastSeenTimestamp |-> <<"l", "a", "s", "t", "S", "e", "e", "n", "T", "i", "m", "e", "s", "t", "a", "m", "p">>,
     rank |-> <<"r", "a", "n", "k">>,
     percentile |-> <<"p", "e", "r", "c", "e", "n", "t", "i", "l", "e">>,
     exportedAt |-> <<"e", "x", "p", "o", "r", "t", "e", "d", "A", "t">>,
     totalNodes |-> <<"t", "o", "t", "a", "l", "N", "o", "d", "e", "s">>,
     networkStats |-> <<"n", "e", "t", "w", "o", "r", "k", "S", "t", "a", "t", "s">>,
     onlineNodes |-> <<"o", "n", "l", "i", "n", "e", "N", "o", "d", "e", "s">>,
     offlineNodes |-> <<"o", "f", "f", "l", "i", "n", "e", "N", "o", "d", "e", "s">>,
     totalStorage |-> <<"t", "o", "t", "a", "l", "S", "t", "o", "r", "a", "g", "e">>,
     usedStorage |-> <<"u", "s", "e", "d", "S", "t", "o", "r", "a", "g", "e">>,
     storageUtilization |-> <<"s", "t", "o", "r", "a", "g", "e", "U", "t", "i", "l", "i", "z", "a", "t", "i", "o", "n">>,
     avgUptime |-> <<"a", "v", "g", "U", "p", "t", "i", "m", "e">>,
     avgHealthScore |-> <<"a", "v", "g", "H", "e", "a", "l", "t", "h", "S", "c", "o", "r", "e">>,
     publicNodes |-> <<"p", "u", "b", "l", "i", "c", "N", "o", "d", "e", "s">>,
     privateNodes |-> <<"p", "r", "i", "v", "a", "t", "e", "N", "o", "d", "e", "s">>,
     latestVersion |-> <<"l", "a", "t", "e", "s", "t", "V", "e", "r", "s", "i", "o", "n">>]

parseJSON(content) ==
    LET data == JsonParse(content)
    IN  IF ~data.ok THEN Throw("SyntaxError")
        ELSE IF data.val.t = "array" THEN Return(data.val.items)
        ELSE IF data.val.t = "object" /\ ObjGet(data.val.entries, K.nodes).t = "array"
             THEN Return(ObjGet(data.val.entries, K.nodes).items)
        ELSE Throw("Invalid JSON format: expected array or object with nodes array")

Includes(s, c) == \E i \in 1..Len(s) : s[i] = c

detectFileType(content) ==
    LET trimmed == Trim(content)
    IN  IF CharAt(trimmed, 1) \in {"{", "["} /\ JsonParse(trimmed).ok THEN "json"
        ELSE IF Includes(trimmed, ",") /\ Includes(trimmed, "\n") THEN "csv"
        ELSE "unknown"

\* type is "csv", "json" or "undefined" (argument omitted).
parseFileContent(content, type) ==
    LET fileType == IF type = "undefined" THEN detectFileType(content) ELSE type
    IN  IF fileType = "json" THEN parseJSON(content)
        ELSE IF fileType = "csv" THEN Return(parseCSV(content))
        ELSE Throw("Unable to detect file format. Please use CSV or JSON.")

(***************************************************************************)
(* SpecDetect: detectFileType and parseFileContent on file texts.          *)
(***************************************************************************)
ContentAlphabet == {"[", "]", "{", ",", "\n", "1"}

ContentSamples ==
    {<<"{", "\"", "n", "o", "d", "e", "s", "\"", ":", "[", "]", "}">>,
     <<"{", "\"", "n", "o", "d", "e", "s", "\"", ":", "[", "1", ",", "\n", "{", "}", "]", "}">>,
     <<"{", "\"", "n", "o", "d", "e", "s", "\"", ":", "1", "}">>,
     <<"{", "\"", "n", "o", "d", "e", "s", "\"", ":", "[", "1", ",", "\n">>,
     <<"{", "\"", "a", "\"", ":", "[", "]", "}">>,
     <<"{", "}">>,
     <<"n", "u", "l", "l">>,
     <<"\"", "a", ",", "\\", "n", "\"">>,
     <<" ", "[", "1", ".", "5", ",", "-", "1", "e", "1", "]", "\n">>,
     <<"a", ",", "b", "\n">>,
     <<"a", ",", "b", "\n", "c", ",", "d">>,
     <<"a", "\n", "b">>}

Contents == Lists(ContentAlphabet, MaxContentLen) \cup ContentSamples

InitDetect ==
    /\ nodes = <<>>
    /\ arg \in {[content |-> c, type |-> t] : c \in Contents, t \in {"undefined", "csv", "json"}}
    /\ op = "init"
    /\ ret = Undefined
    /\ ui = NoComponent

\* detectFileType(content)
DetectFileType ==
    /\ op = "init"
    /\ ret' = detectFileType(arg.content)
    /\ op' = "detectFileType"
    /\ UNCHANGED <<nodes, arg, ui>>

\* parseFileContent(content, type)
ParseFileContent ==
    /\ op = "init"
    /\ ret' = parseFileContent(arg.content, arg.type)
    /\ op' = "parseFileContent"
    /\ UNCHANGED <<nodes, arg, ui>>

NextDetect == DetectFileType \/ ParseFileContent

SpecDetect == InitDetect /\ [][NextDetect]_vars

StartsLikeJson(content) == CharAt(Trim(content), 1) \in {"{", "["}
IsJsonText(content) == StartsLikeJson(content) /\ JsonParse(Trim(content)).ok
MalformedJson(content) == StartsLikeJson(content) /\ ~JsonParse(Trim(content)).ok
LooksLikeCsv(content) == Includes(Trim(content), ",") /\ Includes(Trim(content), "\n")
HasRowList(content) ==
    LET data == JsonParse(Trim(content)).val
    IN  data.t = "array" \/ (data.t = "object" /\ ObjGet(data.entries, K.nodes).t = "array")

\* C13: detectFileType returns 'json' exactly when the trimmed text starts with '{'
\* or '[' and parses as JSON, otherwise 'csv' exactly when the text holds both a
\* comma and a newline, otherwise 'unknown'; parseFileContent on 'unknown' text, on
\* malformed JSON, or on JSON that is neither an array nor an object with a nodes
\* array fails with an error and returns no rows.
C13_DetectionAndRejection ==
    /\ op = "detectFileType"
       => ret = IF IsJsonText(arg.content) THEN "json"
                ELSE IF LooksLikeCsv(arg.content) THEN "csv"
                ELSE "unknown"
    /\ (op = "parseFileContent" /\ arg.type = "undefined")
       => ((\/ MalformedJson(arg.content)
            \/ (IsJsonText(arg.content) /\ ~HasRowList(arg.content))
            \/ (~IsJsonText(arg.content) /\ ~LooksLikeCsv(arg.content)))
           => ret.threw)

\* The part of C13 the code keeps: text that detection calls 'unknown' and JSON
\* without a row list are rejected.
C13_UnknownAndShapelessRejected ==
    (op = "parseFileContent" /\ arg.type = "undefined")
    => (((IsJsonText(arg.content) /\ ~HasRowList(arg.content))
         \/ (~StartsLikeJson(arg.content) /\ ~LooksLikeCsv(arg.content)))
        => ret.threw)

(***************************************************************************)
(* String and number conversions used by the import validators.            *)
(***************************************************************************)
UpperLetters == <<"A", "B", "C", "D", "E", "F", "G", "H", "I", "J", "K", "L", "M", "N", "O", "P", "Q", "R", "S", "T", "U", "V", "W", "X", "Y", "Z">>
LowerLetters == <<"a", "b", "c", "d", "e", "f", "g", "h", "i", "j", "k", "l", "m", "n", "o", "p", "q", "r", "s", "t", "u", "v", "w", "x", "y", "z">>

LowerChar(c) ==
    IF \E i \in 1..26 : UpperLetters[i] = c
    THEN LowerLetters[CHOOSE i \in 1..26 : UpperLetters[i] = c]
    ELSE c

\* s.toLowerCase()
ToLowerCase(s) == [i \in 1..Len(s) |-> LowerChar(s[i])]

DigitChar(d) == CHOOSE c \in Digits : DigitValue(c) = d

\* The decimal digits of a natural number.
RECURSIVE NatToString(_)
NatToString(n) ==
    IF n < 10 THEN <<DigitChar(n)>> ELSE Append(NatToString(n \div 10), DigitChar(n % 10))

\* The k decimal digits of n, zero padded on the left.
RECURSIVE PadDigits(_, _)
PadDigits(n, k) == IF k = 0 THEN <<>> ELSE Append(PadDigits(n \div 10, k - 1), DigitChar(n % 10))

\* The number of decimals of a finite number whose decimal expansion ends.
Decimals(x) == CHOOSE k \in 0..9 : Pow10(k) % x.d = 0 /\ \A j \in 0..(k - 1) : Pow10(j) % x.d # 0

\* String(x) for a number: the shortest decimal form.
NumberToString(x) ==
    IF IsNaN(x) THEN <<"N", "a", "N">>
    ELSE IF x.k = "inf"
         THEN (IF x.n < 0 THEN <<"-">> ELSE <<>>) \o <<"I", "n", "f", "i", "n", "i", "t", "y">>
    ELSE LET k == Decimals(x)
             scaled == (Abs(x.n) * Pow10(k)) \div x.d
         IN  (IF x.n < 0 THEN <<"-">> ELSE <<>>)
             \o NatToString(scaled \div Pow10(k))
             \o (IF k = 0 THEN <<>> ELSE <<".">> \o PadDigits(scaled % Pow10(k), k))

\* Number(s) for a string: surrounding whitespace is dropped, the empty string
\* is 0, then an optionally signed Infinity or decimal literal (digits, fraction,
\* exponent); anything else is NaN.
StringToNumber(s) ==
    LET t == Trim(s)
        neg == CharAt(t, 1) = "-"
        a == IF CharAt(t, 1) \in {"+", "-"} THEN 2 ELSE 1
        intEnd == DigitsEnd(t, a)
        hasDot == CharAt(t, intEnd) = "."
        fracEnd == IF hasDot THEN DigitsEnd(t, intEnd + 1) ELSE intEnd
        fracLen == IF hasDot THEN fracEnd - intEnd - 1 ELSE 0
        hasExp == CharAt(t, fracEnd) \in {"e", "E"}
        expNeg == CharAt(t, fracEnd + 1) = "-"
        expStart == IF CharAt(t, fracEnd + 1) \in {"+", "-"} THEN fracEnd + 2 ELSE fracEnd + 1
        expEnd == DigitsEnd(t, expStart)
        digits == SubSeq(t, a, intEnd - 1) \o (IF hasDot THEN SubSeq(t, intEnd + 1, fracEnd - 1) ELSE <<>>)
        mantissa == Fin((IF neg THEN -1 ELSE 1) * DecimalValue(digits), Pow10(fracLen))
        exponent == DecimalValue(SubSeq(t, expStart, expEnd - 1))
    IN  IF t = <<>> THEN Lit(0)
        ELSE IF SubSeq(t, a, Len(t)) = <<"I", "n", "f", "i", "n", "i", "t", "y">>
             THEN Infinity(IF neg THEN -1 ELSE 1)
        ELSE IF digits = <<>> \/ (hasExp /\ expEnd = expStart)
                \/ (IF hasExp THEN expEnd ELSE fracEnd) # Len(t) + 1
             THEN NaN
        ELSE IF ~hasExp THEN mantissa
        ELSE IF expNeg THEN NumDiv(mantissa, Lit(Pow10(exponent)))
        ELSE NumMul(mantissa, Lit(Pow10(exponent)))

RECURSIVE ToStr(_)
RECURSIVE JoinComma(_)

\* String(value)
ToStr(value) ==
    CASE value.t = "string" -> value.str
      [] value.t = "number" -> NumberToString(value.num)
      [] value.t = "boolean" -> IF value.bool THEN <<"t", "r", "u", "e">> ELSE <<"f", "a", "l", "s", "e">>
      [] value.t = "null" -> <<"n", "u", "l", "l">>
      [] value.t = "undefined" -> <<"u", "n", "d", "e", "f", "i", "n", "e", "d">>
      [] value.t = "array" -> JoinComma(value.items)
      [] value.t = "object" -> <<"[", "o", "b", "j", "e", "c", "t", " ", "O", "b", "j", "e", "c", "t", "]">>

\* elements.join(','): null and undefined elements give the empty string.
JoinComma(elements) ==
    IF elements = <<>> THEN <<>>
    ELSE LET last == elements[Len(elements)]
             text == IF last.t \in {"null", "undefined"} THEN <<>> ELSE ToStr(last)
         IN  IF Len(elements) = 1 THEN text
             ELSE JoinComma(SubSeq(elements, 1, Len(elements) - 1)) \o <<",">> \o text

\* Number(value)
ToNum(value) ==
    CASE value.t = "string" -> StringToNumber(value.str)
      [] value.t = "number" -> value.num
      [] value.t = "boolean" -> IF value.bool THEN Lit(1) ELSE Lit(0)
      [] value.t = "null" -> Lit(0)
      [] value.t = "undefined" -> NaN
      [] value.t = "array" -> StringToNumber(ToStr(value))
      [] value.t = "object" -> NaN

(***************************************************************************)
(* Import validation (src/src/lib/import.ts).                              *)
(***************************************************************************)

S_online == <<"o", "n", "l", "i", "n", "e">>
S_offline == <<"o", "f", "f", "l", "i", "n", "e">>

REQUIRED_FIELDS == <<K.pubkey, K.status>>

\* Object.keys(FIELD_VALIDATORS)
ValidatedFields ==
    <<K.pubkey, K.status, K.healthScore, K.uptime, K.storageUsed, K.storageTotal, K.isPublic, K.ip, K.rpcPort>>

Valid == [valid |-> TRUE, message |-> ""]
Invalid(message) == [valid |-> FALSE, message |-> message]

\* value === undefined || value === null || value === ''
IsBlank(value) ==
    value.t \in {"undefined", "null"} \/ (value.t = "string" /\ value.str = <<>>)

\* /^(\d{1,3}\.){3}\d{1,3}$/.test(s)
IsIPv4(s) ==
    LET parts == SplitDot(s)
    IN  /\ Len(parts) = 4
        /\ \A i \in 1..4 : Len(parts[i]) \in 1..3 /\ AllDigits(parts[i])

\* x < 0 || x > max, on numbers
OutOfRange(x, lo, hi) == NumLess(x, Lit(lo)) \/ NumLess(Lit(hi), x)

\* !Number.isFinite(num) || num < lo || num > hi
NotWithin(num, lo, hi) == ~IsFinite(num) \/ OutOfRange(num, lo, hi)

\* !Number.isFinite(num) || num < 0
NotNonNegative(num) == ~IsFinite(num) \/ NumLess(num, Lit(0))

\* !Number.isInteger(num) || num < 1 || num > 65535
NotPort(num) == ~(IsFinite(num) /\ num.d = 1) \/ OutOfRange(num, 1, 65535)

\* The validators that have the shape: blank passes, else Number(value) is tested.
NumberValidator(field, value, num) ==
    IF IsBlank(value) THEN Valid
    ELSE CASE field = K.healthScore ->
                IF NotWithin(num, 0, 100)
                THEN Invalid("Health score must be a number between 0 and 100") ELSE Valid
           [] field = K.uptime ->
                IF NotNonNegative(num) THEN Invalid("Uptime must be a non-negative number") ELSE Valid
           [] field = K.storageUsed ->
                IF NotNonNegative(num) THEN Invalid("Storage used must be a non-negative number") ELSE Valid
           [] field = K.storageTotal ->
                IF NotNonNegative(num) THEN Invalid("Storage total must be a non-negative number") ELSE Valid
           [] field = K.rpcPort ->
                IF NotPort(num) THEN Invalid("RPC port must be an integer between 1 and 65535") ELSE Valid

\* The validators that test String(value).
StringValidator(field, value, str) ==
    CASE field = K.status ->
            IF ToLowerCase(str) \notin {S_online, S_offline}
            THEN Invalid("Status must be one of: online, offline")
            ELSE Valid
      [] field = K.isPublic ->
            IF IsBlank(value) THEN Valid
            ELSE IF ToLowerCase(str) \notin
                    {<<"t", "r", "u", "e">>, <<"f", "a", "l", "s", "e">>, <<"y", "e", "s">>, <<"n", "o">>, <<"1">>, <<"0">>}
            THEN Invalid("Public access must be true/false, yes/no, or 1/0")
            ELSE Valid
      [] field = K.ip ->
            IF IsBlank(value) THEN Valid
            ELSE IF ~IsIPv4(str) THEN Invalid("Invalid IP address format")
            ELSE Valid

\* FIELD_VALIDATORS[field](value)
FieldValidator(field, value) ==
    IF field = K.pubkey
    THEN IF value.t # "string" \/ Trim(value.str) = <<>>
         THEN Invalid("Pubkey is required and must be a non-empty string")
         ELSE IF Len(value.str) < 32
         THEN Invalid("Pubkey must be at least 32 characters")
         ELSE Valid
    ELSE IF field \in {K.status, K.isPublic, K.ip}
    THEN StringValidator(field, value, ToStr(value))
    ELSE NumberValidator(field, value, ToNum(value))

\* row[field]
RowGet(row, field) == ObjGet(row.entries, field)

RequiredMessage(field) ==
    IF field = K.pubkey THEN "Missing required field: pubkey" ELSE "Missing required field: status"

\* The loop over REQUIRED_FIELDS, fields 1..i.
RECURSIVE RequiredLoop(_, _, _)
RequiredLoop(row, rowIndex, i) ==
    IF i = 0 THEN <<>>
    ELSE LET field == REQUIRED_FIELDS[i]
         IN  IF IsBlank(RowGet(row, field))
             THEN Append(RequiredLoop(row, rowIndex, i - 1),
                         [row |-> rowIndex, field |-> field,
                          message |-> RequiredMessage(field), value |-> RowGet(row, field)])
             ELSE RequiredLoop(row, rowIndex, i - 1)

\* The error entry of a field whose validator gave result.
FieldError(row, rowIndex, field, result) ==
    IF ~IsBlank(RowGet(row, field)) /\ ~result.valid
    THEN <<[row |-> rowIndex, field |-> field, message |-> result.message, value |-> RowGet(row, field)]>>
    ELSE <<>>

\* The loop over Object.entries(FIELD_VALIDATORS), validators 1..i.
RECURSIVE ValidatorLoop(_, _, _)
ValidatorLoop(row, rowIndex, i) ==
    IF i = 0 THEN <<>>
    ELSE ValidatorLoop(row, rowIndex, i - 1)
         \o FieldError(row, rowIndex, ValidatedFields[i],
                       FieldValidator(ValidatedFields[i], RowGet(row, ValidatedFields[i])))

validateRow(row, rowIndex) ==
    RequiredLoop(row, rowIndex, Len(REQUIRED_FIELDS)) \o ValidatorLoop(row, rowIndex, Len(ValidatedFields))

\* One turn of the for loop of validateImportData: the counts after a row.
AddRowErrors(before, rowErrors) ==
    IF Len(rowErrors) > 0
    THEN [errors |-> before.errors \o rowErrors,
          validRows |-> before.validRows,
          invalidRows |-> before.invalidRows + 1]
    ELSE [before EXCEPT !.validRows = @ + 1]

\* The for loop of validateImportData over rows 1..i.
RECURSIVE ValidateLoop(_, _)
ValidateLoop(rows, i) ==
    IF i = 0 THEN [errors |-> <<>>, validRows |-> 0, invalidRows |-> 0]
    ELSE AddRowErrors(ValidateLoop(rows, i - 1), validateRow(rows[i], i))

\* The object validateImportData returns.
ValidationResult(counted) ==
    [isValid |-> counted.invalidRows = 0,
     errors |-> counted.errors,
     validRows |-> counted.validRows,
     invalidRows |-> counted.invalidRows]

\* The least member of bad, or otherwise when there is none.
LeastOr(bad, otherwise) ==
    IF bad = {} THEN otherwise ELSE CHOOSE i \in bad : \A j \in bad : i <= j

validateImportData_StopAtFirstInvalid(rows) ==
    ValidationResult(ValidateLoop(rows,
        LeastOr({i \in 1..Len(rows) : Len(validateRow(rows[i], i)) > 0}, Len(rows))))

validateImportData(rows) == ValidationResult(ValidateLoop(rows, Len(rows)))

\* new Date(): the epoch milliseconds and the ISO text of the same instant.
Clock ==
    {[ms |-> 1000, iso |-> <<"1", "9", "7", "0", "-", "0", "1", "-", "0", "1", "T", "0", "0", ":", "0", "0", ":", "0", "1", ".", "0", "0", "0", "Z">>]}

\* row.field ?? fallback
Nullish(value, fallback) == IF value.t \in {"undefined", "null"} THEN fallback ELSE value

parseBoolean(val) ==
    IF val.t = "boolean" THEN val.bool
    ELSE ToLowerCase(ToStr(val)) \in {<<"t", "r", "u", "e">>, <<"y", "e", "s">>, <<"1">>}

\* x || fallback on numbers
OrElse(x, fallback) == IF IsNaN(x) \/ x = Lit(0) THEN fallback ELSE x

\* rowToNode(row), with now the value the clock gives during the call.
rowToNode(row, now) ==
    [pubkey |-> ToStr(Nullish(RowGet(row, K.pubkey), Str(<<>>))),
     status |-> ToLowerCase(ToStr(Nullish(RowGet(row, K.status), Str(S_offline)))),
     version |-> ToStr(Nullish(RowGet(row, K.version), Str(<<"0", ".", "0", ".", "0">>))),
     storageUsed |-> OrZero(ToNum(RowGet(row, K.storageUsed))),
     storageTotal |-> OrZero(ToNum(RowGet(row, K.storageTotal))),
     storageCommitted |-> OrZero(ToNum(RowGet(row, K.storageCommitted))),
     storageUsagePercent |-> OrZero(ToNum(RowGet(row, K.storageUsagePercent))),
     uptime |-> OrZero(ToNum(RowGet(row, K.uptime))),
     ip |-> ToStr(Nullish(RowGet(row, K.ip), Str(<<>>))),
     lastSeen |-> ToStr(Nullish(RowGet(row, K.lastSeen), Str(now.iso))),
     address |-> ToStr(Nullish(RowGet(row, K.address), Str(<<>>))),
     isPublic |-> parseBoolean(RowGet(row, K.isPublic)),
     rpcPort |-> OrElse(ToNum(RowGet(row, K.rpcPort)), Lit(8899)),
     lastSeenTimestamp |-> OrElse(ToNum(RowGet(row, K.lastSeenTimestamp)), Lit(now.ms)),
     healthScore |-> IF RowGet(row, K.healthScore).t # "undefined" THEN ToNum(RowGet(row, K.healthScore)) ELSE Undefined,
     rank |-> IF RowGet(row, K.rank).t # "undefined" THEN ToNum(RowGet(row, K.rank)) ELSE Undefined,
     percentile |-> IF RowGet(row, K.percentile).t # "undefined" THEN Str(ToStr(RowGet(row, K.percentile))) ELSE JsUndefined]

\* The 0-based row indices without an error, in row order (validRowIndices).
ValidRowIndices(rows, validation) ==
    LET hasNoError(i) == \A e \in 1..Len(validation.errors) : validation.errors[e].row # i + 1
    IN  SelectSeq([i \in 1..Len(rows) |-> i - 1], hasNoError)

\* new Set(existingNodes.map(n => n.pubkey))
PubkeySet(existingNodes) == {existingNodes[i].pubkey : i \in 1..Len(existingNodes)}

\* The forEach over validRowIndices: how many rows have an existing pubkey.
CountUpdated(rows, validRowIndices, existingPubkeys) ==
    LET isExisting(idx) == ToStr(RowGet(rows[idx + 1], K.pubkey)) \in existingPubkeys
    IN  Len(SelectSeq(validRowIndices, isExisting))

\* The object processImport returns.
ImportResult(validation, processed, updated) ==
    [success |-> validation.isValid \/ validation.validRows > 0,
     imported |-> processed - updated,
     updated |-> updated,
     skipped |-> validation.invalidRows,
     errors |-> validation.errors]

\* processImport after validation: the rows in processedIndices are counted.
CountRows(rows, validation, processedIndices, existingPubkeys) ==
    ImportResult(validation, Len(processedIndices), CountUpdated(rows, processedIndices, existingPubkeys))

processImport_AllRows(rows, existingNodes) ==
    CountRows(rows, validateImportData(rows), [i \in 1..Len(rows) |-> i - 1], PubkeySet(existingNodes))

processImport(rows, existingNodes) ==
    CountRows(rows, validateImportData(rows), ValidRowIndices(rows, validateImportData(rows)),
              PubkeySet(existingNodes))

\* The loop of getValidNodesFromImport over the rows in kept.
ConvertRows(rows, kept, now) == [k \in 1..Len(kept) |-> rowToNode(rows[kept[k] + 1], now)]

getValidNodesFromImport(rows, now) ==
    ConvertRows(rows, ValidRowIndices(rows, validateImportData(rows)), now)

(***************************************************************************)
(* SpecImport: validateImportData, processImport and                       *)
(* getValidNodesFromImport on lists of parsed rows.  The rows are objects  *)
(* of primitive values, as parseCSV and a JSON array of records give them. *)
(***************************************************************************)
PK_A == [i \in 1..32 |-> "a"]
PK_B == [i \in 1..32 |-> "b"]

\* Sample rows, by what is wrong with them.
R ==
    [valid |->
        Obj(<<[key |-> K.pubkey, value |-> Str(PK_A)],
            [key |-> K.status, value |-> Str(S_online)]>>),
     validFull |->
        Obj(<<[key |-> K.pubkey, value |-> Str(PK_B)],
            [key |-> K.status, value |-> Str(<<"O", "F", "F", "L", "I", "N", "E">>)],
            [key |-> K.version, value |-> Str(<<"1", ".", "0", ".", "0">>)],
            [key |-> K.healthScore, value |-> Num(Lit(50))],
            [key |-> K.uptime, value |-> Str(<<"1", ".", "5">>)],
            [key |-> K.isPublic, value |-> Bool(TRUE)],
            [key |-> K.ip, value |-> Str(<<"1", ".", "2", ".", "3", ".", "4">>)],
            [key |-> K.rpcPort, value |-> Str(<<"8", "8", "9", "9">>)]>>),
     blankOptional |->
        Obj(<<[key |-> K.pubkey, value |-> Str(PK_B)],
            [key |-> K.status, value |-> Str(S_online)],
            [key |-> K.healthScore, value |-> Str(<<>>)],
            [key |-> K.uptime, value |-> JsNull],
            [key |-> K.ip, value |-> Str(<<>>)]>>),
     noPubkey |->
        Obj(<<[key |-> K.pubkey, value |-> Str(<<>>)],
            [key |-> K.status, value |-> Str(S_offline)]>>),
     absentPubkey |->
        Obj(<<[key |-> K.status, value |-> Str(S_online)]>>),
     shortPubkey |->
        Obj(<<[key |-> K.pubkey, value |-> Str(<<"a", "b", "c">>)],
            [key |-> K.status, value |-> Str(S_online)]>>),
     badStatus |->
        Obj(<<[key |-> K.pubkey, value |-> Str(PK_A)],
            [key |-> K.status, value |-> Str(<<"u", "p">>)]>>),
     badHealth |->
        Obj(<<[key |-> K.pubkey, value |-> Str(PK_B)],
            [key |-> K.status, value |-> Str(S_online)],
            [key |-> K.healthScore, value |-> Str(<<"1", "0", "1">>)]>>),
     manyErrors |->
        Obj(<<[key |-> K.pubkey, value |-> Num(Lit(5))],
            [key |-> K.status, value |-> Str(<<>>)],
            [key |-> K.uptime, value |-> Str(<<"-", "1">>)],
            [key |-> K.ip, value |-> Str(<<"1", ".", "2", ".", "3">>)],
            [key |-> K.rpcPort, value |-> Num(Fin(3, 2))]>>)]

SampleRows == {R[k] : k \in DOMAIN R}

ExistingNodeLists ==
    {<<>>, <<MkNode(PK_A, "online", V_1_0_0, 0, 0, 0, TRUE, 0, Undefined)>>}

InitImport ==
    /\ nodes \in ExistingNodeLists
    /\ arg \in {[rows |-> rs, now |-> c] : rs \in Lists(SampleRows, MaxRows), c \in Clock}
    /\ op = "init"
    /\ ret = Undefined
    /\ ui = NoComponent

\* validateImportData(rows)
ValidateImportData ==
    /\ op = "init"
    /\ ret' = validateImportData(arg.rows)
    /\ op' = "validateImportData"
    /\ UNCHANGED <<nodes, arg, ui>>

\* processImport(rows, existingNodes)
ProcessImport ==
    /\ op = "init"
    /\ ret' = processImport(arg.rows, nodes)
    /\ op' = "processImport"
    /\ UNCHANGED <<nodes, arg, ui>>

\* getValidNodesFromImport(rows)
GetValidNodesFromImport ==
    /\ op = "init"
    /\ ret' = getValidNodesFromImport(arg.rows, arg.now)
    /\ op' = "getValidNodesFromImport"
    /\ UNCHANGED <<nodes, arg, ui>>

NextImport == ValidateImportData \/ ProcessImport \/ GetValidNodesFromImport

SpecImport == InitImport /\ [][NextImport]_vars

\* The errors of row i when it is validated on its own, numbered as row i.
Renumbered(errors, i) == [e \in 1..Len(errors) |-> [errors[e] EXCEPT !.row = i]]
ErrorsAlone(row, i) == Renumbered(validateImportData(<<row>>).errors, i)

ErrorsOfRow(errors, i) ==
    LET ofRow(e) == e.row = i
    IN  SelectSeq(errors, ofRow)

ValidAlone(row) == validateImportData(<<row>>).errors = <<>>

\* C14: validateImportData validates every row independently of the others: a row
\* counts as valid iff it produced no error (absent optional fields produce none),
\* validRows + invalidRows is the number of rows, isValid holds iff invalidRows = 0,
\* every error carries the 1-based index of its row, an invalid row does not stop
\* later rows from being validated, and two rows of which only the second lacks a
\* pubkey give 1 valid row and 1 invalid row with an error on field 'pubkey', row 2.
C14_RowsValidatedIndependently ==
    op = "validateImportData"
    => /\ ret.validRows + ret.invalidRows = Len(arg.rows)
       /\ ret.isValid <=> ret.invalidRows = 0
       /\ ret.validRows = Cardinality({i \in 1..Len(arg.rows) : ValidAlone(arg.rows[i])})
       /\ ret.validRows = Cardinality({i \in 1..Len(arg.rows) : ErrorsOfRow(ret.errors, i) = <<>>})
       /\ \A e \in 1..Len(ret.errors) : ret.errors[e].row \in 1..Len(arg.rows)
       /\ \A i \in 1..Len(arg.rows) :
            /\ ErrorsOfRow(ret.errors, i) = ErrorsAlone(arg.rows[i], i)
            /\ arg.rows[i] = R.valid => ErrorsOfRow(ret.errors, i) = <<>>
       /\ (Len(arg.rows) = 2 /\ arg.rows[1] = R.valid /\ arg.rows[2] = R.noPubkey)
          => /\ ret.validRows = 1
             /\ ret.invalidRows = 1
             /\ Len(ret.errors) = 1
             /\ ret.errors[1].field = K.pubkey
             /\ ret.errors[1].row = 2

\* An invalid first row (five errors), then a valid row, then the row without pubkey.
C14_Witness ==
    /\ op = "validateImportData"
    /\ arg.rows = <<R.manyErrors, R.valid, R.noPubkey>>
    /\ ret.validRows = 1
    /\ ret.invalidRows = 2
    /\ ~ret.isValid
    /\ Len(ret.errors) = 6
    /\ ret.errors[6] = [row |-> 3, field |-> K.pubkey,
                        message |-> "Missing required field: pubkey", value |-> Str(<<>>)]

ExistingPubkeys == {nodes[i].pubkey : i \in 1..Len(nodes)}
ValidRowNumbers == {i \in 1..Len(arg.rows) : ValidAlone(arg.rows[i])}

\* The valid rows in row order.
ValidRowsInOrder ==
    LET rs == arg.rows
    IN  SelectSeq(rs, ValidAlone)

\* C15: only validated rows count towards an import: processImport returns
\* imported + updated = number of valid rows and skipped = number of invalid rows,
\* a valid row counts as updated iff its pubkey is the pubkey of an existing node and
\* as imported otherwise, and getValidNodesFromImport returns exactly one converted
\* record per valid row, in row order, and none for an invalid row.
C15_OnlyValidRowsImported ==
    /\ op = "processImport"
       => /\ ret.imported + ret.updated = Cardinality(ValidRowNumbers)
          /\ ret.skipped = Len(arg.rows) - Cardinality(ValidRowNumbers)
          /\ ret.imported + ret.updated + ret.skipped = Len(arg.rows)
          /\ ret.updated = Cardinality({i \in ValidRowNumbers :
                                            RowGet(arg.rows[i], K.pubkey).str \in ExistingPubkeys})
    /\ op = "getValidNodesFromImport"
       => /\ Len(ret) = Len(ValidRowsInOrder)
          /\ \A k \in 1..Len(ret) : ret[k] = rowToNode(ValidRowsInOrder[k], arg.now)

\* A known pubkey in a valid row, the same pubkey in an invalid row and a new one.
C15_Witness ==
    /\ op = "processImport"
    /\ Len(nodes) = 1
    /\ arg.rows = <<R.valid, R.badStatus, R.validFull>>
    /\ ret.updated = 1
    /\ ret.imported = 1
    /\ ret.skipped = 1

(***************************************************************************)
(* Export (src/src/lib/export.ts).  A node handed to the exporter is a     *)
(* JavaScript object, so that typeof and String() act on its values.       *)
(***************************************************************************)
EXPORT_COLUMNS ==
    [rank |-> [label |-> <<"R", "a", "n", "k">>, key |-> K.rank],
     pubkey |-> [label |-> <<"P", "u", "b", "k", "e", "y">>, key |-> K.pubkey],
     status |-> [label |-> <<"S", "t", "a", "t", "u", "s">>, key |-> K.status],
     healthScore |-> [label |-> <<"H", "e", "a", "l", "t", "h", " ", "S", "c", "o", "r", "e">>, key |-> K.healthScore],
     uptime |-> [label |-> <<"U", "p", "t", "i", "m", "e", " ", "(", "d", "a", "y", "s", ")">>, key |-> K.uptime],
     storageUsed |-> [label |-> <<"S", "t", "o", "r", "a", "g", "e", " ", "U", "s", "e", "d">>, key |-> K.storageUsed],
     storageTotal |-> [label |-> <<"S", "t", "o", "r", "a", "g", "e", " ", "T", "o", "t", "a", "l">>, key |-> K.storageTotal],
     storageUsagePercent |-> [label |-> <<"S", "t", "o", "r", "a", "g", "e", " ", "U", "s", "a", "g", "e", " ", "%">>, key |-> K.storageUsagePercent],
     version |-> [label |-> <<"V", "e", "r", "s", "i", "o", "n">>, key |-> K.version],
     ip |-> [label |-> <<"I", "P", " ", "A", "d", "d", "r", "e", "s", "s">>, key |-> K.ip],
     isPublic |-> [label |-> <<"P", "u", "b", "l", "i", "c", " ", "A", "c", "c", "e", "s", "s">>, key |-> K.isPublic],
     rpcPort |-> [label |-> <<"R", "P", "C", " ", "P", "o", "r", "t">>, key |-> K.rpcPort],
     lastSeen |-> [label |-> <<"L", "a", "s", "t", " ", "S", "e", "e", "n">>, key |-> K.lastSeen],
     percentile |-> [label |-> <<"P", "e", "r", "c", "e", "n", "t", "i", "l", "e">>, key |-> K.percentile]]

\* value ? a : b
Truthy(value) ==
    CASE value.t \in {"undefined", "null"} -> FALSE
      [] value.t = "boolean" -> value.bool
      [] value.t = "number" -> ~IsNaN(value.num) /\ value.num # Lit(0)
      [] value.t = "string" -> value.str # <<>>
      [] OTHER -> TRUE

\* Number(x.toFixed(2)): x to two decimals, a half rounding away from zero.
ToFixed2(x) ==
    IF ~IsFinite(x) THEN (IF IsNaN(x) THEN NaN ELSE x)
    ELSE LET magnitude == MathRound(Fin(Abs(x.n) * 100, x.d))
         IN  Fin((IF x.n < 0 THEN -1 ELSE 1) * magnitude.n, 100)

\* column is the name of a key of EXPORT_COLUMNS.
formatNodeValue(node, column) ==
    LET value == ObjGet(node.entries, K[column])
    IN  CASE column \in {"storageUsed", "storageTotal", "healthScore"} ->
                IF value.t = "number" THEN value ELSE Num(Lit(0))
          [] column \in {"uptime", "storageUsagePercent"} ->
                IF value.t = "number" THEN Num(ToFixed2(value.num)) ELSE Num(Lit(0))
          [] column = "isPublic" ->
                IF Truthy(value) THEN Str(<<"Y", "e", "s">>) ELSE Str(<<"N", "o">>)
          [] column = "rank" ->
                IF value.t = "number" THEN value ELSE Str(<<"-">>)
          [] OTHER ->
                IF value.t \notin {"undefined", "null"} THEN Str(ToStr(value)) ELSE Str(<<>>)

escapeCSVValue(value) ==
    IF value.t \in {"null", "undefined"} THEN <<>>
    ELSE LET str == ToStr(value)
         IN  IF \E i \in 1..Len(str) : str[i] \in {",", "\"", "\n", "\r"}
             THEN <<"\"">> \o DoubleQuotes(str) \o <<"\"">>
             ELSE str

\* parts.join(sep)
RECURSIVE Join(_, _)
Join(parts, sep) ==
    IF parts = <<>> THEN <<>>
    ELSE IF Len(parts) = 1 THEN parts[1]
    ELSE Join(SubSeq(parts, 1, Len(parts) - 1), sep) \o sep \o parts[Len(parts)]

\* s.split(c) for a one-character separator c
RECURSIVE Split(_, _)
Split(s, c) ==
    LET at == {i \in 1..Len(s) : s[i] = c}
    IN  IF at = {} THEN <<s>>
        ELSE LET i == CHOOSE j \in at : \A m \in at : j <= m
             IN  <<SubSeq(s, 1, i - 1)>> \o Split(SubSeq(s, i + 1, Len(s)), c)

\* options.includeHeader is "true", "false" or "undefined" (left out).
exportToCSV(list, options) ==
    LET columns == options.columns
        includeHeader == options.includeHeader # "false"
        headerRow == [c \in 1..Len(columns) |-> escapeCSVValue(Str(EXPORT_COLUMNS[columns[c]].label))]
        row(node) == [c \in 1..Len(columns) |-> escapeCSVValue(formatNodeValue(node, columns[c]))]
        dataLines == [i \in 1..Len(list) |-> Join(row(list[i]), <<",">>)]
    IN  Join((IF includeHeader THEN <<Join(headerRow, <<",">>)>> ELSE <<>>) \o dataLines, <<"\n">>)

\* headers.forEach((header, idx) => obj[header] = values[idx] ?? '') from idx on.
RECURSIVE ExportRowObject(_, _, _, _)
ExportRowObject(headers, values, idx, obj) ==
    IF idx > Len(headers) THEN obj
    ELSE ExportRowObject(headers, values, idx + 1,
                         ObjSet(obj, headers[idx],
                                Str(IF idx <= Len(values) THEN values[idx] ELSE <<>>)))

\* parseCSVLine of export.ts is the same code as parseCSVLine of import.ts.
parseCSVToObjects(csv) ==
    LET lines == SelectSeq(Split(csv, "\n"), IsKeptLine)
    IN  IF Len(lines) < 2 THEN <<>>
        ELSE LET headers == parseCSVLine(lines[1])
             IN  [i \in 1..(Len(lines) - 1) |->
                    Obj(ExportRowObject(headers, parseCSVLine(lines[i + 1]), 1, <<>>))]

(***************************************************************************)
(* SpecExportCsv: exportToCSV, then parseCSVToObjects on its output.       *)
(***************************************************************************)
ExportNodes ==
    {Obj(<<[key |-> K.pubkey, value |-> Str(<<"p", "k">>)],
        [key |-> K.status, value |-> Str(S_online)],
        [key |-> K.version, value |-> Str(<<"1", ".", "0", ".", "0">>)],
        [key |-> K.healthScore, value |-> Num(Lit(87))],
        [key |-> K.uptime, value |-> Num(Fin(2469, 200))],
        [key |-> K.isPublic, value |-> Bool(TRUE)],
        [key |-> K.ip, value |-> Str(<<"1", ".", "2", ".", "3", ".", "4">>)],
        [key |-> K.rank, value |-> Num(Lit(1))]>>),
     Obj(<<[key |-> K.pubkey, value |-> Str(<<"a", ",", "b">>)],
        [key |-> K.status, value |-> Str(S_offline)],
        [key |-> K.version, value |-> Str(<<"1", ".", "0">>)],
        [key |-> K.healthScore, value |-> Num(NaN)],
        [key |-> K.uptime, value |-> Num(Lit(0))],
        [key |-> K.isPublic, value |-> Bool(FALSE)],
        [key |-> K.ip, value |-> Str(<<>>)]>>),
     Obj(<<[key |-> K.pubkey, value |-> Str(<<"q", "\"">>)],
        [key |-> K.status, value |-> Str(S_online)],
        [key |-> K.version, value |-> Str(<<"1", ".", "0", ".", "0">>)],
        [key |-> K.healthScore, value |-> Num(Lit(50))],
        [key |-> K.uptime, value |-> Num(Lit(31))],
        [key |-> K.isPublic, value |-> Bool(TRUE)],
        [key |-> K.ip, value |-> Str(<<>>)],
        [key |-> K.rank, value |-> Num(Lit(2))]>>)}

ColumnChoices == {"rank", "pubkey", "healthScore", "uptime", "isPublic", "ip"}

\* The ordered selections of distinct columns.
ColumnSelections ==
    {cs \in Lists(ColumnChoices, MaxColumns) : \A i, j \in 1..Len(cs) : cs[i] = cs[j] => i = j}

NoExport == [text |-> <<>>, parsed |-> <<>>]

InitExportCsv ==
    /\ nodes \in Lists(ExportNodes, MaxExportNodes)
    /\ arg \in {[format |-> "csv", columns |-> cs, includeHeader |-> h] :
                    cs \in ColumnSelections, h \in {"undefined", "true", "false"}}
    /\ op = "init"
    /\ ret = NoExport
    /\ ui = NoComponent

\* exportToCSV(nodes, options)
ExportToCSV ==
    /\ op = "init"
    /\ ret' = [ret EXCEPT !.text = exportToCSV(nodes, arg)]
    /\ op' = "exportToCSV"
    /\ UNCHANGED <<nodes, arg, ui>>

\* parseCSVToObjects(csv) on the exported text
ParseCSVToObjects ==
    /\ op = "exportToCSV"
    /\ ret' = [ret EXCEPT !.parsed = parseCSVToObjects(ret.text)]
    /\ op' = "parseCSVToObjects"
    /\ UNCHANGED <<nodes, arg, ui>>

NextExportCsv == ExportToCSV \/ ParseCSVToObjects

SpecExportCsv == InitExportCsv /\ [][NextExportCsv]_vars

\* The string exported for column c of node i.
Exported(i, c) == ToStr(formatNodeValue(nodes[i], arg.columns[c]))

RoundTripsAll ==
    /\ Len(ret.parsed) = Len(nodes)
    /\ \A i \in 1..Len(ret.parsed) : \A c \in 1..Len(arg.columns) :
            ObjGet(ret.parsed[i].entries, EXPORT_COLUMNS[arg.columns[c]].label) = Str(Exported(i, c))

\* C16: with a header row and any column selection, parseCSVToObjects(exportToCSV(
\* nodes, options)) has exactly one object per exported node, in order, holding
\* under each column's header label the string that was exported; a pubkey with a
\* comma or a double quote comes back as exactly the original string.
C16_CsvRoundTrip ==
    (op = "parseCSVToObjects" /\ arg.includeHeader # "false" /\ arg.columns # <<>>)
    => RoundTripsAll

\* The part of C16 the code keeps: the round trip of node lists in which every
\* exported line has a character other than white space.
C16_CsvRoundTripOfNonBlankLines ==
    (/\ op = "parseCSVToObjects" /\ arg.includeHeader # "false" /\ arg.columns # <<>>
     /\ \A i \in 1..Len(nodes) : \E c \in 1..Len(arg.columns) : Trim(Exported(i, c)) # <<>>)
    => RoundTripsAll

(***************************************************************************)
(* JSON.stringify(value, null, 2).                                         *)
(***************************************************************************)
Indent(depth) == [i \in 1..(2 * depth) |-> " "]

EscapeChar(c) ==
    CASE c = "\"" -> <<"\\", "\"">>
      [] c = "\\" -> <<"\\", "\\">>
      [] c = "\n" -> <<"\\", "n">>
      [] c = "\r" -> <<"\\", "r">>
      [] c = "\t" -> <<"\\", "t">>
      [] OTHER -> <<c>>

RECURSIVE EscapeChars(_)
EscapeChars(str) == IF str = <<>> THEN <<>> ELSE EscapeChar(Head(str)) \o EscapeChars(Tail(str))

\* The JSON text of a string.
QuoteJson(str) == <<"\"">> \o EscapeChars(str) \o <<"\"">>

RECURSIVE JsonStringify(_, _)
\* The text of value at nesting depth; undefined is written as null (its text as an
\* array element), and an undefined property is left out of its object.
JsonStringify(value, depth) ==
    LET inner == Indent(depth + 1)
        isWritten(entry) == entry.value.t # "undefined"
        written == SelectSeq(value.entries, isWritten)
        members == [i \in 1..Len(written) |->
                        inner \o QuoteJson(written[i].key) \o <<":", " ">>
                        \o JsonStringify(written[i].value, depth + 1)]
        elements == [i \in 1..Len(value.items) |-> inner \o JsonStringify(value.items[i], depth + 1)]
    IN  CASE value.t = "string" -> QuoteJson(value.str)
          [] value.t = "number" ->
                IF IsFinite(value.num) THEN NumberToString(value.num) ELSE <<"n", "u", "l", "l">>
          [] value.t = "boolean" -> ToStr(value)
          [] value.t \in {"null", "undefined"} -> <<"n", "u", "l", "l">>
          [] value.t = "array" ->
                IF value.items = <<>> THEN <<"[", "]">>
                ELSE <<"[", "\n">> \o Join(elements, <<",", "\n">>) \o <<"\n">> \o Indent(depth) \o <<"]">>
          [] value.t = "object" ->
                IF written = <<>> THEN <<"{", "}">>
                ELSE <<"{", "\n">> \o Join(members, <<",", "\n">>) \o <<"\n">> \o Indent(depth) \o <<"}">>

\* The object exportToJSON builds for one node, from column c on.
RECURSIVE Filtered(_, _, _, _)
Filtered(node, columns, c, filtered) ==
    IF c > Len(columns) THEN filtered
    ELSE Filtered(node, columns, c + 1,
                  ObjSet(filtered, K[columns[c]], formatNodeValue(node, columns[c])))

\* exportToJSON that writes every property of a node instead of the selected columns.
exportToJSON_AllProperties(list, options, networkStats, now) ==
    JsonStringify(
        Obj(<<[key |-> K.exportedAt, value |-> Str(now.iso)],
              [key |-> K.totalNodes, value |-> Num(Lit(Len(list)))]>>
            \o (IF Truthy(networkStats) THEN <<[key |-> K.networkStats, value |-> networkStats]>> ELSE <<>>)
            \o <<[key |-> K.nodes, value |-> Arr(list)]>>),
        0)

\* exportToJSON(nodes, options, networkStats), with now the clock during the call.
exportToJSON(list, options, networkStats, now) ==
    LET filteredNodes == [i \in 1..Len(list) |-> Obj(Filtered(list[i], options.columns, 1, <<>>))]
    IN  JsonStringify(
            Obj(<<[key |-> K.exportedAt, value |-> Str(now.iso)],
                  [key |-> K.totalNodes, value |-> Num(Lit(Len(list)))]>>
                \o (IF Truthy(networkStats) THEN <<[key |-> K.networkStats, value |-> networkStats]>> ELSE <<>>)
                \o <<[key |-> K.nodes, value |-> Arr(filteredNodes)]>>),
            0)

\* parseJSONExport(json): threw where JSON.parse or the property access throws.
parseJSONExport(json) ==
    LET data == JsonParse(json)
    IN  IF ~data.ok \/ data.val.t = "null"
        THEN [threw |-> TRUE, nodes |-> JsUndefined, networkStats |-> JsUndefined]
        ELSE [threw |-> FALSE,
              nodes |-> Nullish(ObjGet(data.val.entries, K.nodes), Arr(<<>>)),
              networkStats |-> ObjGet(data.val.entries, K.networkStats)]

(***************************************************************************)
(* SpecExportJson: exportToJSON, then parseJSONExport on its output.       *)
(***************************************************************************)
StatsSnapshot ==
    Obj(<<[key |-> K.totalNodes, value |-> Num(Lit(3))],
          [key |-> K.onlineNodes, value |-> Num(Lit(2))],
          [key |-> K.offlineNodes, value |-> Num(Lit(1))],
          [key |-> K.totalStorage, value |-> Num(Lit(2000))],
          [key |-> K.usedStorage, value |-> Num(Lit(250))],
          [key |-> K.storageUtilization, value |-> Num(Fin(25, 2))],
          [key |-> K.avgUptime, value |-> Num(Fin(43, 2))],
          [key |-> K.avgHealthScore, value |-> Num(Fin(137, 2))],
          [key |-> K.publicNodes, value |-> Num(Lit(2))],
          [key |-> K.privateNodes, value |-> Num(Lit(0))],
          [key |-> K.latestVersion, value |-> Str(V_1_0_0)]>>)

InitExportJson ==
    /\ nodes \in Lists(ExportNodes, MaxExportNodes)
    /\ arg \in {[format |-> "json", columns |-> cs, includeHeader |-> "undefined",
                 networkStats |-> st, now |-> c] :
                    cs \in ColumnSelections, st \in {JsUndefined, StatsSnapshot}, c \in Clock}
    /\ op = "init"
    /\ ret = NoExport
    /\ ui = NoComponent

\* exportToJSON(nodes, options, networkStats)
ExportToJSON ==
    /\ op = "init"
    /\ ret' = [ret EXCEPT !.text = exportToJSON(nodes, arg, arg.networkStats, arg.now)]
    /\ op' = "exportToJSON"
    /\ UNCHANGED <<nodes, arg, ui>>

\* parseJSONExport(json) on the exported text
ParseJSONExport ==
    /\ op = "exportToJSON"
    /\ ret' = [ret EXCEPT !.parsed = parseJSONExport(ret.text)]
    /\ op' = "parseJSONExport"
    /\ UNCHANGED <<nodes, arg, ui>>

NextExportJson == ExportToJSON \/ ParseJSONExport

SpecExportJson == InitExportJson /\ [][NextExportJson]_vars

\* What JSON keeps of an exported value: a number that is not finite becomes null.
AsJson(value) == IF value.t = "number" /\ ~IsFinite(value.num) THEN JsNull ELSE value

\* C17: the text of exportToJSON parses to an object whose totalNodes is the number
\* of nodes passed in, whose nodes array has one entry per node in input order with
\* exactly the selected columns (isPublic as 'Yes'/'No', a missing rank as '-'), and
\* which has networkStats iff a snapshot was supplied; parseJSONExport of that text
\* returns the same nodes array and the same networkStats.
C17_JsonExportShape ==
    op \in {"exportToJSON", "parseJSONExport"}
    => LET data == JsonParse(ret.text)
           entries == data.val.entries
           list == ObjGet(entries, K.nodes)
       IN  /\ data.ok
           /\ data.val.t = "object"
           /\ ObjGet(entries, K.totalNodes) = Num(Lit(Len(nodes)))
           /\ list.t = "array"
           /\ Len(list.items) = Len(nodes)
           /\ \A i \in 1..Len(nodes) :
                /\ list.items[i].t = "object"
                /\ [c \in 1..Len(list.items[i].entries) |-> list.items[i].entries[c].key]
                   = [c \in 1..Len(arg.columns) |-> K[arg.columns[c]]]
                /\ \A c \in 1..Len(arg.columns) :
                     /\ list.items[i].entries[c].value = AsJson(formatNodeValue(nodes[i], arg.columns[c]))
                     /\ arg.columns[c] = "isPublic"
                        => list.items[i].entries[c].value
                           = IF ObjGet(nodes[i].entries, K.isPublic) = Bool(TRUE)
                             THEN Str(<<"Y", "e", "s">>) ELSE Str(<<"N", "o">>)
                     /\ (arg.columns[c] = "rank" /\ ~HasKey(nodes[i].entries, K.rank))
                        => list.items[i].entries[c].value = Str(<<"-">>)
           /\ HasKey(entries, K.networkStats) <=> arg.networkStats # JsUndefined
           /\ op = "parseJSONExport"
              => /\ ~ret.parsed.threw
                 /\ ret.parsed.nodes = list
                 /\ ret.parsed.networkStats = arg.networkStats

\* A ranked public node and an unranked private one, exported with the columns
\* rank and isPublic and a stats snapshot, then parsed back.
C17_Witness ==
    /\ op = "parseJSONExport"
    /\ Len(nodes) = 2
    /\ arg.columns = <<"rank", "isPublic">>
    /\ arg.networkStats = StatsSnapshot
    /\ ret.parsed.networkStats = StatsSnapshot
    /\ ret.parsed.nodes
       = Arr(<<Obj(<<[key |-> K.rank, value |-> Num(Lit(1))],
                     [key |-> K.isPublic, value |-> Str(<<"Y", "e", "s">>)]>>),
               Obj(<<[key |-> K.rank, value |-> Str(<<"-">>)],
                     [key |-> K.isPublic, value |-> Str(<<"N", "o">>)]>>)>>)

(***************************************************************************)
(* Map filters (src/src/lib/mapFilters.ts).  A list object is its identity *)
(* ref and its items: filter() allocates a new list, a function that       *)
(* returns its argument returns the same object.                           *)
(***************************************************************************)
DEFAULT_MAP_FILTERS == [statuses |-> <<"online", "offline">>, healthRange |-> <<0, 100>>]

\* The list object held in the nodeLocations state cell.
Source(items) == [ref |-> "nodeLocations", items |-> items]

\* A list object allocated by Array.prototype.filter.
NewList(items) == [ref |-> "new", items |-> items]

\* statuses.includes(status)
IncludesStatus(statuses, status) == \E i \in 1..Len(statuses) : statuses[i] = status

filterNodesByStatus(list, statuses) ==
    IF Len(statuses) = 0 THEN list
    ELSE LET keep(node) == IncludesStatus(statuses, node.status)
         IN  NewList(SelectSeq(list.items, keep))

filterNodesByHealthRange(list, min, max) ==
    LET keep(node) ==
            /\ NumGeq(NullishZero(node.healthScore), Lit(min))
            /\ NumGeq(Lit(max), NullishZero(node.healthScore))
    IN  NewList(SelectSeq(list.items, keep))

\* applyMapFilters with the health filter applied only when both ends are moved.
applyMapFilters_BothEndsMoved(list, filters) ==
    LET min == filters.healthRange[1]
        max == filters.healthRange[2]
        byStatus == IF Len(filters.statuses) > 0 /\ Len(filters.statuses) < 2
                    THEN filterNodesByStatus(list, filters.statuses)
                    ELSE list
    IN  IF min > 0 /\ max < 100 THEN filterNodesByHealthRange(byStatus, min, max) ELSE byStatus

applyMapFilters(list, filters) ==
    LET min == filters.healthRange[1]
        max == filters.healthRange[2]
        byStatus == IF Len(filters.statuses) > 0 /\ Len(filters.statuses) < 2
                    THEN filterNodesByStatus(list, filters.statuses)
                    ELSE list
    IN  IF min > 0 \/ max < 100 THEN filterNodesByHealthRange(byStatus, min, max) ELSE byStatus

\* isDefaultFilters without the test of the health range.
isDefaultFilters_StatusesOnly(filters) ==
    /\ Len(filters.statuses) = 2
    /\ IncludesStatus(filters.statuses, "online")
    /\ IncludesStatus(filters.statuses, "offline")

isDefaultFilters(filters) ==
    /\ Len(filters.statuses) = 2
    /\ IncludesStatus(filters.statuses, "online")
    /\ IncludesStatus(filters.statuses, "offline")
    /\ filters.healthRange[1] = 0
    /\ filters.healthRange[2] = 100

(***************************************************************************)
(* SpecMap: the NodeMapInner component                                     *)
(* (src/src/components/dashboard/NodeMapInner.tsx): the node locations are *)
(* loaded once, the filter bar changes the filters, and every render       *)
(* derives filteredNodes with applyMapFilters.  nodes is the content of    *)
(* nodeLocations, arg the content the last filter call was given and ret   *)
(* the list it returned.                                                   *)
(***************************************************************************)
MapNodes ==
    {[pubkey |-> "pk", status |-> st, healthScore |-> Lit(h)] :
        st \in {"online", "offline"}, h \in {0, 50, 100}}

\* Positions of the two slider thumbs (min 0, max 100, step 5) the model moves to.
SliderStops == {0, 5, 50, 100}
SliderValues == {<<lo, hi>> : lo \in SliderStops, hi \in SliderStops} \ {<<lo, hi>> \in SliderStops \X SliderStops : lo > hi}

InitMap ==
    /\ nodes = <<>>
    /\ arg = <<>>
    /\ op = "init"
    /\ ret = applyMapFilters(Source(<<>>), DEFAULT_MAP_FILTERS)
    /\ ui = [component |-> "NodeMapInner", isLoading |-> TRUE,
             filters |-> DEFAULT_MAP_FILTERS, mapKey |-> 0]

\* The render after a state change: filteredNodes = applyMapFilters(nodeLocations, filters).
Render(handler) ==
    /\ ret' = applyMapFilters(Source(nodes'), ui'.filters)
    /\ arg' = nodes'
    /\ op' = handler

\* load(): the response is ok and its JSON is stored.
LoadSucceeded ==
    /\ ui.isLoading
    /\ \E data \in Lists(MapNodes, MaxMapNodes) : nodes' = Keyed(data)
    /\ ui' = [ui EXCEPT !.isLoading = FALSE]
    /\ Render("load")

\* load(): the response is not ok.
LoadFailed ==
    /\ ui.isLoading
    /\ nodes' = <<>>
    /\ ui' = [ui EXCEPT !.isLoading = FALSE]
    /\ Render("load")

\* onCheckedChange of a status checkbox: the box flips.
ToggleStatus(status) ==
    LET checked == ~IncludesStatus(ui.filters.statuses, status)
        isOther(st) == st # status
        newStatuses == IF checked THEN Append(ui.filters.statuses, status)
                       ELSE SelectSeq(ui.filters.statuses, isOther)
    IN  /\ ui' = [ui EXCEPT !.filters.statuses = newStatuses]
        /\ UNCHANGED nodes
        /\ Render("toggleStatus")

ToggleOnline == ToggleStatus("online")

ToggleOffline == ToggleStatus("offline")

\* onValueChange of the health slider
SlideHealth ==
    /\ \E value \in SliderValues : ui' = [ui EXCEPT !.filters.healthRange = value]
    /\ UNCHANGED nodes
    /\ Render("slideHealth")

\* handleReset
handleReset ==
    /\ ui.mapKey < MaxMapKey
    /\ ui' = [ui EXCEPT !.filters = DEFAULT_MAP_FILTERS, !.mapKey = @ + 1]
    /\ UNCHANGED nodes
    /\ Render("handleReset")

\* The Reset button of the filter bar, shown when the filters are not the default.
ResetFilters ==
    /\ ~isDefaultFilters(ui.filters)
    /\ handleReset

\* The reset button of the map controls, shown with the map.
ResetView ==
    /\ ~ui.isLoading
    /\ handleReset

\* filterNodesByStatus(nodeLocations, filters.statuses)
FilterNodesByStatus ==
    /\ ret' = filterNodesByStatus(Source(nodes), ui.filters.statuses)
    /\ arg' = nodes
    /\ op' = "filterNodesByStatus"
    /\ UNCHANGED <<nodes, ui>>

\* filterNodesByHealthRange(nodeLocations, min, max)
FilterNodesByHealthRange ==
    /\ ret' = filterNodesByHealthRange(Source(nodes), ui.filters.healthRange[1], ui.filters.healthRange[2])
    /\ arg' = nodes
    /\ op' = "filterNodesByHealthRange"
    /\ UNCHANGED <<nodes, ui>>

NextMap ==
    \/ LoadSucceeded
    \/ LoadFailed
    \/ ToggleOnline
    \/ ToggleOffline
    \/ SlideHealth
    \/ ResetFilters
    \/ ResetView
    \/ FilterNodesByStatus
    \/ FilterNodesByHealthRange

SpecMap == InitMap /\ [][NextMap]_vars

Rendered == op \in {"init", "load", "toggleStatus", "slideHealth", "handleReset"}

\* The nodes the claim selects: status in the selected set (every node when the set
\* is empty or holds both statuses) and healthScore within [min, max].
Selected(node) ==
    /\ \/ Len(ui.filters.statuses) = 0
       \/ {ui.filters.statuses[i] : i \in 1..Len(ui.filters.statuses)} = {"online", "offline"}
       \/ IncludesStatus(ui.filters.statuses, node.status)
    /\ node.healthScore.n >= ui.filters.healthRange[1]
    /\ node.healthScore.n <= ui.filters.healthRange[2]

\* C18: for node lists with healthScores in 0..100 and every filter state reachable
\* through the filter bar, applyMapFilters returns, in input order, exactly the nodes
\* whose status is selected and whose healthScore lies in [min, max]: the same list as
\* filterNodesByHealthRange(filterNodesByStatus(nodes, statuses), min, max).
C18_FiltersComposeAsAnd ==
    Rendered
    => /\ ret.items = SelectSeq(nodes, Selected)
       /\ ret.items = filterNodesByHealthRange(
                          filterNodesByStatus(Source(nodes), ui.filters.statuses),
                          ui.filters.healthRange[1], ui.filters.healthRange[2]).items

\* Only online checked and the range narrowed at its top: one of two nodes is left.
C18_Witness ==
    /\ op = "slideHealth"
    /\ ui.filters = [statuses |-> <<"online">>, healthRange |-> <<0, 50>>]
    /\ Len(nodes) = 2
    /\ nodes[1].status = "online" /\ nodes[1].healthScore = Lit(100)
    /\ nodes[2].status = "online" /\ nodes[2].healthScore = Lit(50)
    /\ ret.items = <<nodes[2]>>

\* C19: filtering never mutates the source collection and produces a new derived
\* list: after filterNodesByStatus, filterNodesByHealthRange or applyMapFilters runs
\* with any filter state, the source has the same elements in the same order as
\* before and the returned list is a distinct list object from the source, also when
\* the filter is a no-op.
C19_FreshListSourceIntact ==
    op # "init"
    => /\ nodes = arg
       /\ ret.ref # Source(nodes).ref

\* The part of C19 the code keeps: the source is intact, and the returned list is a
\* new object whenever some filter was applied.
C19_SourceIntactFreshWhenFiltering ==
    op # "init"
    => /\ nodes = arg
       /\ ret.items # nodes => ret.ref # Source(nodes).ref

(***************************************************************************)
(* The export dialog (src/src/components/dashboard/ExportDialog.tsx).      *)
(* nodes, arg.filteredNodes, arg.selectedNodes and arg.networkStats are    *)
(* the props; ui holds the state cells; ret holds what the last event      *)
(* handler sent out: its toasts and its downloads.                         *)
(***************************************************************************)
DEFAULT_COLUMNS ==
    <<"rank", "pubkey", "status", "healthScore", "uptime", "storageUsed", "storageTotal", "version">>

\* Object.keys(EXPORT_COLUMNS)
AllColumns ==
    <<"rank", "pubkey", "status", "healthScore", "uptime", "storageUsed", "storageTotal",
      "storageUsagePercent", "version", "ip", "isPublic", "rpcPort", "lastSeen", "percentile">>

\* An optional list prop.
Given(items) == [given |-> TRUE, items |-> items]
NotGiven == [given |-> FALSE, items |-> <<>>]

Silent == [toasts |-> <<>>, downloads |-> <<>>]

FormatChars(format) == IF format = "csv" THEN <<"c", "s", "v">> ELSE <<"j", "s", "o", "n">>

\* new Date().toISOString().replace(/[:.]/g, '-').slice(0, 19)
Timestamp(now) ==
    LET dashed == [i \in 1..Len(now.iso) |-> IF now.iso[i] \in {":", "."} THEN "-" ELSE now.iso[i]]
    IN  SubSeq(dashed, 1, 19)

\* generateFilename(format) with the default prefix
generateFilename(format, now) ==
    <<"x", "a", "n", "d", "e", "u", "m", "-", "n", "o", "d", "e", "s">> \o <<"-">> \o Timestamp(now) \o <<".">> \o FormatChars(format)

\* exportAndDownload(nodes, options, networkStats): the file handed to downloadFile.
exportAndDownload(list, options, networkStats, now) ==
    [content |-> IF options.format = "csv" THEN exportToCSV(list, options)
                 ELSE exportToJSON(list, options, networkStats, now),
     filename |-> generateFilename(options.format, now),
     mimeType |-> IF options.format = "csv" THEN "text/csv;charset=utf-8"
                  ELSE "application/json;charset=utf-8",
     nodes |-> list,
     columns |-> options.columns]

getNodesToExport(state, props, allNodes) ==
    CASE state.scope = "all" -> allNodes
      [] state.scope = "filtered" -> IF props.filteredNodes.given THEN props.filteredNodes.items ELSE allNodes
      [] state.scope = "selected" -> IF props.selectedNodes.given THEN props.selectedNodes.items ELSE <<>>

UpperChars(format) == IF format = "csv" THEN <<"C", "S", "V">> ELSE <<"J", "S", "O", "N">>

ErrorToast(message) == [kind |-> "error", message |-> message]
SuccessToast(count, format) ==
    [kind |-> "success",
     message |-> <<"E", "x", "p", "o", "r", "t", "e", "d", " ">> \o NatToString(count) \o <<" ", "n", "o", "d", "e", "s", " ", "a", "s", " ">> \o UpperChars(format)]

\* handleExport without the check for an empty scope.
handleExport_NoNodeCheck(state, props, allNodes) ==
    LET nodesToExport == getNodesToExport(state, props, allNodes)
        options == [format |-> state.format, columns |-> state.columns, includeHeader |-> "true"]
    IN  IF Len(state.columns) = 0
        THEN [state |-> state,
              out |-> [toasts |-> <<ErrorToast(<<"P", "l", "e", "a", "s", "e", " ", "s", "e", "l", "e", "c", "t", " ", "a", "t", " ", "l", "e", "a", "s", "t", " ", "o", "n", "e", " ", "c", "o", "l", "u", "m", "n">>)>>, downloads |-> <<>>]]
        ELSE [state |-> [state EXCEPT !.open = FALSE, !.isExporting = FALSE],
              out |-> [toasts |-> <<SuccessToast(Len(nodesToExport), state.format)>>,
                       downloads |-> <<exportAndDownload(nodesToExport, options, props.networkStats, props.now)>>]]

\* handleExport: the state cells and the output after it has run (the browser
\* calls of downloadFile succeed).
handleExport(state, props, allNodes) ==
    LET nodesToExport == getNodesToExport(state, props, allNodes)
        options == [format |-> state.format, columns |-> state.columns, includeHeader |-> "true"]
    IN  IF Len(nodesToExport) = 0
        THEN [state |-> state,
              out |-> [toasts |-> <<ErrorToast(<<"N", "o", " ", "n", "o", "d", "e", "s", " ", "t", "o", " ", "e", "x", "p", "o", "r", "t">>)>>, downloads |-> <<>>]]
        ELSE IF Len(state.columns) = 0
        THEN [state |-> state,
              out |-> [toasts |-> <<ErrorToast(<<"P", "l", "e", "a", "s", "e", " ", "s", "e", "l", "e", "c", "t", " ", "a", "t", " ", "l", "e", "a", "s", "t", " ", "o", "n", "e", " ", "c", "o", "l", "u", "m", "n">>)>>, downloads |-> <<>>]]
        ELSE [state |-> [state EXCEPT !.open = FALSE, !.isExporting = FALSE],
              out |-> [toasts |-> <<SuccessToast(Len(nodesToExport), state.format)>>,
                       downloads |-> <<exportAndDownload(nodesToExport, options, props.networkStats, props.now)>>]]

(***************************************************************************)
(* SpecDialog: the events of the export dialog.                            *)
(***************************************************************************)
DialogNode(pubkey) ==
    CHOOSE n \in ExportNodes : ObjGet(n.entries, K.pubkey) = Str(pubkey)

DialogNodeLists ==
    {<<>>, <<DialogNode(<<"p", "k">>)>>, <<DialogNode(<<"p", "k">>), DialogNode(<<"a", ",", "b">>)>>}

\* The columns whose checkbox the model ticks.
ToggledColumns == {"rank", "ip"}

InitDialog ==
    /\ nodes \in DialogNodeLists
    /\ arg \in {[filteredNodes |-> f, selectedNodes |-> sel, networkStats |-> st, now |-> c] :
                    f \in {NotGiven, Given(<<>>)},
                    sel \in {NotGiven, Given(<<DialogNode(<<"a", ",", "b">>)>>)},
                    st \in {JsUndefined, StatsSnapshot},
                    c \in Clock}
    /\ op = "init"
    /\ ret = Silent
    /\ ui = [component |-> "ExportDialog", open |-> FALSE, format |-> "csv", scope |-> "all",
             columns |-> DEFAULT_COLUMNS, isExporting |-> FALSE]

\* An event that only sets state cells.
SetState(handler, state) ==
    /\ ui' = state
    /\ ret' = Silent
    /\ op' = handler
    /\ UNCHANGED <<nodes, arg>>

\* The trigger button: onOpenChange(true)
OpenDialog ==
    /\ ~ui.open
    /\ SetState("open", [ui EXCEPT !.open = TRUE])

\* The Cancel button or a click outside: setOpen(false)
CloseDialog ==
    /\ ui.open
    /\ SetState("close", [ui EXCEPT !.open = FALSE])

\* The format radio group
SetFormat ==
    /\ ui.open
    /\ \E v \in {"csv", "json"} : SetState("setFormat", [ui EXCEPT !.format = v])

\* The scope radios that are rendered.
ScopeChoices ==
    {"all"}
    \cup (IF arg.filteredNodes.given /\ Len(arg.filteredNodes.items) # Len(nodes) THEN {"filtered"} ELSE {})
    \cup (IF arg.selectedNodes.given /\ Len(arg.selectedNodes.items) > 0 THEN {"selected"} ELSE {})

\* The scope radio group
SetScope ==
    /\ ui.open
    /\ \E v \in ScopeChoices : SetState("setScope", [ui EXCEPT !.scope = v])

\* handleColumnToggle(column)
handleColumnToggle ==
    /\ ui.open
    /\ \E column \in ToggledColumns :
        LET isOther(c) == c # column
            has == \E i \in 1..Len(ui.columns) : ui.columns[i] = column
        IN  SetState("handleColumnToggle",
                     [ui EXCEPT !.columns = IF has THEN SelectSeq(ui.columns, isOther)
                                            ELSE Append(ui.columns, column)])

handleSelectAll ==
    /\ ui.open
    /\ SetState("handleSelectAll", [ui EXCEPT !.columns = AllColumns])

handleSelectNone ==
    /\ ui.open
    /\ SetState("handleSelectNone", [ui EXCEPT !.columns = <<>>])

\* disabled={isExporting || columns.length === 0}
ExportDisabled(state) == state.isExporting \/ Len(state.columns) = 0

\* A click on the Export button: handleExport runs.
ClickExport ==
    /\ ui.open
    /\ ~ExportDisabled(ui)
    /\ LET done == handleExport(ui, arg, nodes)
       IN  ui' = done.state /\ ret' = done.out
    /\ op' = "handleExport"
    /\ UNCHANGED <<nodes, arg>>

NextDialog ==
    \/ OpenDialog
    \/ CloseDialog
    \/ SetFormat
    \/ SetScope
    \/ handleColumnToggle
    \/ handleSelectAll
    \/ handleSelectNone
    \/ ClickExport

SpecDialog == InitDialog /\ [][NextDialog]_vars

\* What handleExport does when it is confirmed in the current state.
Confirmed == handleExport(ui, arg, nodes)

MAX_NODES == 200
BATCH_SIZE == 20

\* The most nodes of one request whose lookup goes to the network.
MaxLive == 3

Min(a, b) == IF a <= b THEN a ELSE b

NoGeo == [found |-> FALSE, lat |-> 0, lng |-> 0, country |-> <<>>, region |-> <<>>, city |-> <<>>]

\* address.split(':')[0].trim() when it has the dotted-quad shape, else null (<<>>).
extractIP(address) ==
    IF address = <<>> THEN <<>>
    ELSE IF IsIPv4(Trim(Split(address, ":")[1])) THEN Trim(Split(address, ":")[1])
    ELSE <<>>

\* x || fallback on strings
OrString(x, fallback) == IF x = <<>> THEN fallback ELSE x

\* resolveIPToGeo after the fetch: what the lookup resolves to for an answer.
\* answer.kind is "response", "rejected" (network error) or "aborted" (timeout).
geoOfAnswer(answer) ==
    IF answer.kind # "response" THEN NoGeo
    ELSE IF ~answer.ok THEN NoGeo
    ELSE IF answer.data.status = "fail" THEN NoGeo
    ELSE IF answer.data.lat = 0 \/ answer.data.lon = 0 \/ answer.data.country = <<>> THEN NoGeo
    ELSE [found |-> TRUE, lat |-> answer.data.lat, lng |-> answer.data.lon,
          country |-> OrString(answer.data.country, <<"U", "n", "k", "n", "o", "w", "n">>),
          region |-> OrString(answer.data.regionName, <<"U", "n", "k", "n", "o", "w", "n">>),
          city |-> answer.data.city]

\* cache.get(ip) with cached.expiresAtMs > Date.now()
FreshEntries(cache, ip) == {e \in cache : e.ip = ip /\ e.fresh}

\* cache.set(ip, {value, expiresAtMs: now + GEO_CACHE_TTL_MS})
cacheSet(cache, ip, value) ==
    {e \in cache : e.ip # ip} \cup {[ip |-> ip, value |-> value, fresh |-> TRUE]}

\* node.address || node.ip
LookupAddress(node) == OrString(node.address, node.ip)

\* resolveNodeGeo up to its first await: settled at once with null or with the
\* cached value, or waiting for the fetch.
startLookup(node, cache) ==
    IF extractIP(LookupAddress(node)) = <<>> THEN [state |-> "settled", geo |-> NoGeo]
    ELSE IF FreshEntries(cache, extractIP(LookupAddress(node))) # {}
    THEN [state |-> "settled",
          geo |-> (CHOOSE e \in FreshEntries(cache, extractIP(LookupAddress(node))) : TRUE).value]
    ELSE [state |-> "pending", geo |-> NoGeo]

NullMapNode ==
    [isNull |-> TRUE, pubkey |-> 0, lat |-> 0, lng |-> 0, country |-> <<>>, region |-> <<>>,
     city |-> <<>>, status |-> "", healthScore |-> Lit(0), version |-> <<>>, lastSeen |-> <<>>]

\* The value the batch callback returns for a node whose lookup gave geo.
toMapNode(node, geo) ==
    IF ~geo.found THEN NullMapNode
    ELSE [isNull |-> FALSE, pubkey |-> node.pubkey, lat |-> geo.lat, lng |-> geo.lng,
          country |-> geo.country, region |-> geo.region, city |-> geo.city,
          status |-> node.status, healthScore |-> NullishZero(node.healthScore),
          version |-> node.version, lastSeen |-> node.lastSeen]

\* nodes.slice(0, MAX_NODES)
limitedNodes(list) == SubSeq(list, 1, Min(Len(list), MAX_NODES))

\* The loop over settled that stops at the first lookup without a value.
collectSettled_AbortOnFailure(results, settled) ==
    LET missing == {k \in 1..Len(settled) : settled[k].status # "fulfilled" \/ settled[k].value.isNull}
        upTo == IF missing = {} THEN Len(settled) ELSE (CHOOSE k \in missing : \A m \in missing : k <= m) - 1
    IN  results \o [k \in 1..upTo |-> settled[k].value]

\* for (const item of settled) if (item.status === 'fulfilled' && item.value) results.push(item.value)
collectSettled(results, settled) ==
    LET kept(item) == item.status = "fulfilled" /\ ~item.value.isNull
        keptItems == SelectSeq(settled, kept)
    IN  results \o [k \in 1..Len(keptItems) |-> keptItems[k].value]

\* The indices (1-based) of the batch that starts after i nodes.
BatchIndices(list, i) == (i + 1)..Min(i + BATCH_SIZE, Len(limitedNodes(list)))

\* batch.map(...): the lookups of the batch after i nodes are started.
startBatch(state, list, i) ==
    [state EXCEPT
        !.i = i,
        !.lookups = [idx \in 1..Len(state.lookups) |->
                        IF idx \in BatchIndices(list, i) THEN startLookup(list[idx], state.cache)
                        ELSE state.lookups[idx]]]

Pending(state) == {idx \in 1..Len(state.lookups) : state.lookups[idx].state = "pending"}

\* What Promise.allSettled resolves to for the batch after i nodes.
SettledItems(state, list) ==
    [k \in 1..Cardinality(BatchIndices(list, state.i)) |->
        [status |-> "fulfilled", value |-> toMapNode(list[state.i + k], state.lookups[state.i + k].geo)]]

(***************************************************************************)
(* SpecGeo: one request to the map endpoint.                               *)
(***************************************************************************)
A_none == <<>>
A_host == <<"h", "o", "s", "t", ":", "9", "0", "0", "1">>
A_cached == <<"1", ".", "1", ".", "1", ".", "1", ":", "9", "0", "0", "1">>
A_live == <<" ", "2", ".", "2", ".", "2", ".", "2", " ", ":", "9", "0", "0", "1">>
A_stale == <<"3", ".", "3", ".", "3", ".", "3">>

G_cached ==
    [found |-> TRUE, lat |-> 1, lng |-> 1, country |-> <<"A">>, region |-> <<"R">>, city |-> <<>>]

InitialCache ==
    {[ip |-> <<"1", ".", "1", ".", "1", ".", "1">>, value |-> G_cached, fresh |-> TRUE],
     [ip |-> <<"3", ".", "3", ".", "3", ".", "3">>, value |-> G_cached, fresh |-> FALSE]}

\* The positions whose lookup may go to the network, and the list lengths.
LivePositions == {1, 20, 21, 200, 201}
NodeCounts == {0, 1, 21, 200, 201}

GeoNode(p, live) ==
    [pubkey |-> p,
     address |-> IF p \in live THEN (IF p % 2 = 1 THEN A_live ELSE A_none)
                 ELSE IF p % 3 = 0 THEN A_cached
                 ELSE IF p % 3 = 1 THEN A_none ELSE A_host,
     ip |-> IF p \in live /\ p % 2 = 0 THEN A_stale ELSE <<>>,
     status |-> IF p % 2 = 0 THEN "online" ELSE "offline",
     healthScore |-> IF p % 5 = 0 THEN Undefined ELSE Lit(50),
     version |-> V_1_0_0,
     lastSeen |-> <<>>]

\* What the geolocation service or the network can answer.
GeoData(status, lat, lon, country) ==
    [status |-> status, lat |-> lat, lon |-> lon, country |-> country, regionName |-> <<>>, city |-> <<"C">>]

GeoAnswers ==
    {[kind |-> "response", ok |-> TRUE, data |-> GeoData("success", 5, 7, <<"B">>)],
     [kind |-> "response", ok |-> FALSE, data |-> GeoData("", 0, 0, <<>>)],
     [kind |-> "response", ok |-> TRUE, data |-> GeoData("fail", 0, 0, <<>>)],
     [kind |-> "response", ok |-> TRUE, data |-> GeoData("success", 0, 7, <<"B">>)],
     [kind |-> "rejected", ok |-> FALSE, data |-> GeoData("", 0, 0, <<>>)],
     [kind |-> "aborted", ok |-> FALSE, data |-> GeoData("", 0, 0, <<>>)]}

NoResponse == [sent |-> FALSE, body |-> <<>>]
Json(body) == [sent |-> TRUE, body |-> body]

InitGeo ==
    /\ \E n \in NodeCounts : \E live \in SUBSET (LivePositions \cap 1..n) :
          /\ Cardinality(live) <= MaxLive
          /\ nodes = [p \in 1..n |-> GeoNode(p, live)]
    /\ arg \in {[throws |-> b] : b \in BOOLEAN}
    /\ op = "init"
    /\ ret = NoResponse
    /\ ui = [component |-> "MapRoute", phase |-> "idle", i |-> 0, results |-> <<>>,
             lookups |-> <<>>, cache |-> InitialCache]

\* GET when getComputedNodes rejects: the catch answers [].
GetFailed ==
    /\ ui.phase = "idle"
    /\ arg.throws
    /\ ui' = [ui EXCEPT !.phase = "responded"]
    /\ ret' = Json(<<>>)
    /\ op' = "GET"
    /\ UNCHANGED <<nodes, arg>>

Unstarted(list) == [idx \in 1..Len(limitedNodes(list)) |-> [state |-> "unstarted", geo |-> NoGeo]]

\* GET up to the first await Promise.allSettled, or to the response for no nodes.
GetStarted ==
    /\ ui.phase = "idle"
    /\ ~arg.throws
    /\ IF Len(limitedNodes(nodes)) = 0
       THEN /\ ui' = [ui EXCEPT !.phase = "responded"]
            /\ ret' = Json(<<>>)
       ELSE /\ ui' = startBatch([ui EXCEPT !.phase = "waiting", !.lookups = Unstarted(nodes)], nodes, 0)
            /\ ret' = ret
    /\ op' = "GET"
    /\ UNCHANGED <<nodes, arg>>

\* One fetch of resolveIPToGeo settles: response, network error or timeout.
LookupSettled ==
    /\ ui.phase = "waiting"
    /\ \E idx \in Pending(ui), answer \in GeoAnswers :
         ui' = [ui EXCEPT
                  !.lookups[idx] = [state |-> "settled", geo |-> geoOfAnswer(answer)],
                  !.cache = IF geoOfAnswer(answer).found
                            THEN cacheSet(ui.cache, extractIP(LookupAddress(nodes[idx])), geoOfAnswer(answer))
                            ELSE ui.cache]
    /\ op' = "settle"
    /\ UNCHANGED <<nodes, arg, ret>>

\* After Promise.allSettled: the batch is collected, then the next batch starts
\* or the response is sent.
BatchSettled ==
    /\ ui.phase = "waiting"
    /\ Pending(ui) = {}
    /\ IF ui.i + BATCH_SIZE < Len(limitedNodes(nodes))
       THEN /\ ui' = startBatch([ui EXCEPT !.results = collectSettled(ui.results, SettledItems(ui, nodes))],
                                nodes, ui.i + BATCH_SIZE)
            /\ ret' = ret
       ELSE /\ ui' = [ui EXCEPT !.results = collectSettled(ui.results, SettledItems(ui, nodes)),
                                !.phase = "responded"]
            /\ ret' = Json(collectSettled(ui.results, SettledItems(ui, nodes)))
    /\ op' = "batch"
    /\ UNCHANGED <<nodes, arg>>

NextGeo == GetFailed \/ GetStarted \/ LookupSettled \/ BatchSettled

SpecGeo == InitGeo /\ [][NextGeo]_vars

\* The positions whose lookup has been started, and those that were located.
Started == {idx \in 1..Len(ui.lookups) : ui.lookups[idx].state # "unstarted"}
Located == {idx \in 1..Len(ui.lookups) : ui.lookups[idx].state = "settled" /\ ui.lookups[idx].geo.found}

\* C21: the map endpoint geolocates at most the first 200 computed nodes in batches
\* of at most 20 concurrent lookups; a batch starts only after every lookup of the
\* batch before it has settled; a lookup that fails, times out or returns nothing
\* removes only that node and never aborts the batch or the remaining batches; the
\* response lists the located nodes in their input order (the pubkey of a node of
\* SpecGeo is its position in the input).
C21_BoundedBatchesTolerateFailures ==
    /\ Started \subseteq 1..200
    /\ Cardinality(Pending(ui)) <= 20
    /\ \A idx \in Pending(ui), other \in Started : (idx - 1) \div 20 >= (other - 1) \div 20
    /\ \A idx \in Started, before \in 1..Len(ui.lookups) :
         (before - 1) \div 20 < (idx - 1) \div 20 => ui.lookups[before].state = "settled"
    /\ (ret.sent /\ ~arg.throws)
       => /\ Started = 1..Min(Len(nodes), 200)
          /\ Pending(ui) = {}
          /\ {ret.body[k].pubkey : k \in 1..Len(ret.body)} = {nodes[idx].pubkey : idx \in Located}
          /\ \A k \in 1..(Len(ret.body) - 1) : ret.body[k].pubkey < ret.body[k + 1].pubkey
          /\ \A k \in 1..Len(ret.body) :
               /\ ret.body[k].lat = ui.lookups[ret.body[k].pubkey].geo.lat
               /\ ret.body[k].status = nodes[ret.body[k].pubkey].status

\* 201 nodes: the lookup of node 1 failed, node 21 was located by a fetch in the
\* second batch, node 200 failed in the last batch, and the cached nodes are listed.
C21_Witness ==
    /\ ret.sent
    /\ ~arg.throws
    /\ Len(nodes) = 201
    /\ ui.lookups[1].state = "settled" /\ ~ui.lookups[1].geo.found
    /\ extractIP(LookupAddress(nodes[1])) # <<>>
    /\ 21 \in Located
    /\ ui.lookups[21].geo.lat = 5
    /\ 200 \notin Located
    /\ extractIP(LookupAddress(nodes[200])) # <<>>
    /\ \E k \in 1..Len(ret.body) : ret.body[k].pubkey = 21
    /\ \A k \in 1..Len(ret.body) : ret.body[k].pubkey \notin {1, 200, 201}
    /\ Len(ret.body) > 60

(***************************************************************************)
(* The snapshot cache of loadRawNodes (src/src/hooks/use-media-query.ts).  *)
(* ui.cache is the pair cachedRawNodes/cachedAtMs, ui.clock is Date.now(), *)
(* ui.file is pnodes.json as a read would find it, ui.inflight are the     *)
(* calls waiting for readFile, ui.reads records every successful read.     *)
(***************************************************************************)
CACHE_TTL_MS == 15000

\* The most clock advances and calls begun of one behaviour.
MaxTicks == 3
MaxBegun == 3

EmptyCache == [present |-> FALSE, json |-> <<>>, at |-> 0]

\* cachedRawNodes && now - cachedAtMs < CACHE_TTL_MS
CacheHit(cache, now) == cache.present /\ now - cache.at < CACHE_TTL_MS

NoCall == [kind |-> "none", value |-> <<>>, now |-> 0]

\* loadRawNodes up to its await: a cached return, or a call waiting for readFile.
beginLoad(state, id) ==
    IF CacheHit(state.cache, state.clock)
    THEN [state |-> state,
          out |-> [kind |-> "hit", value |-> state.cache.json, now |-> state.clock]]
    ELSE [state |-> [state EXCEPT !.inflight = @ \cup {[id |-> id, now |-> state.clock]}],
          out |-> NoCall]

\* loadRawNodes after readFile where the timestamp is taken when the read ends.
afterRead_StampAtCompletion(state, call, file) ==
    IF file.readable /\ file.parses
    THEN [state |-> [state EXCEPT !.cache = [present |-> TRUE, json |-> file.json, at |-> state.clock],
                                  !.inflight = @ \ {call},
                                  !.reads = @ \cup {[json |-> file.json, startedAt |-> call.now]}],
          out |-> [kind |-> "read", value |-> file.json, now |-> call.now]]
    ELSE [state |-> [state EXCEPT !.inflight = @ \ {call}],
          out |-> [kind |-> "threw", value |-> <<>>, now |-> call.now]]

\* loadRawNodes after readFile: parse, store with the call's own now, return;
\* a failed read or parse throws before the cache is touched.
afterRead(state, call, file) ==
    IF file.readable /\ file.parses
    THEN [state |-> [state EXCEPT !.cache = [present |-> TRUE, json |-> file.json, at |-> call.now],
                                  !.inflight = @ \ {call},
                                  !.reads = @ \cup {[json |-> file.json, startedAt |-> call.now]}],
          out |-> [kind |-> "read", value |-> file.json, now |-> call.now]]
    ELSE [state |-> [state EXCEPT !.inflight = @ \ {call}],
          out |-> [kind |-> "threw", value |-> <<>>, now |-> call.now]]

(***************************************************************************)
(* SpecCache: calls of loadRawNodes, the clock and the file.               *)
(***************************************************************************)
\* pnodes.json: two arrays, a text that is no JSON, and a missing file.
FileVersions ==
    {[readable |-> TRUE, parses |-> TRUE, json |-> <<>>],
     [readable |-> TRUE, parses |-> TRUE, json |-> <<"node">>],
     [readable |-> TRUE, parses |-> FALSE, json |-> <<>>],
     [readable |-> FALSE, parses |-> FALSE, json |-> <<>>]}

InitCache ==
    /\ nodes = <<>>
    /\ arg = <<>>
    /\ op = "init"
    /\ ret = NoCall
    /\ \E file \in FileVersions :
         ui = [component |-> "nodeData.server", cache |-> EmptyCache, clock |-> 0, ticks |-> 0,
               begun |-> 0, file |-> file, inflight |-> {}, reads |-> {}]

\* Time passes.
Tick ==
    /\ ui.ticks < MaxTicks
    /\ \E d \in {1, 14999} : ui' = [ui EXCEPT !.clock = @ + d, !.ticks = @ + 1]
    /\ op' = "tick"
    /\ UNCHANGED <<nodes, arg, ret>>

\* pnodes.json is replaced.
FileWritten ==
    /\ \E file \in FileVersions \ {ui.file} : ui' = [ui EXCEPT !.file = file]
    /\ op' = "write"
    /\ UNCHANGED <<nodes, arg, ret>>

\* A caller invokes loadRawNodes.
BeginLoad ==
    /\ ui.begun < MaxBegun
    /\ ui' = [beginLoad(ui, ui.begun + 1).state EXCEPT !.begun = @ + 1]
    /\ ret' = beginLoad(ui, ui.begun + 1).out
    /\ op' = "begin"
    /\ UNCHANGED <<nodes, arg>>

\* readFile of one waiting call settles.
ReadSettled ==
    /\ \E call \in ui.inflight :
         /\ ui' = afterRead(ui, call, ui.file).state
         /\ ret' = afterRead(ui, call, ui.file).out
    /\ op' = "settle"
    /\ UNCHANGED <<nodes, arg>>

NextCache == Tick \/ FileWritten \/ BeginLoad \/ ReadSettled

SpecCache == InitCache /\ [][NextCache]_vars

\* The call that settled in this step.
SettledCall == CHOOSE call \in ui.inflight : call \notin ui'.inflight

\* C22: the snapshot cache is a single-entry read-through cache with a 15-second
\* TTL: a loadRawNodes call that begins less than 15 s after the timestamp of the
\* cached entry returns the cached snapshot without reading the file; any other call
\* reads the file and, on success, replaces the entry; a read or parse failure
\* propagates to the caller and leaves the cached snapshot and its timestamp
\* unchanged.  After any interleaving of concurrent calls the cached snapshot is one
\* that was actually read and the cached timestamp is the start time of the read
\* that produced it.
C22_ReadThroughCache ==
    [][/\ op' = "begin"
          => IF ui.cache.present /\ ui.clock - ui.cache.at < 15000
             THEN /\ ret' = [kind |-> "hit", value |-> ui.cache.json, now |-> ui.clock]
                  /\ ui'.inflight = ui.inflight
                  /\ ui'.reads = ui.reads
                  /\ ui'.cache = ui.cache
             ELSE /\ Cardinality(ui'.inflight) = Cardinality(ui.inflight) + 1
                  /\ \A call \in ui'.inflight \ ui.inflight : call.now = ui.clock
                  /\ ui'.cache = ui.cache
       /\ op' = "settle"
          => IF ui.file.readable /\ ui.file.parses
             THEN /\ ret' = [kind |-> "read", value |-> ui.file.json, now |-> SettledCall.now]
                  /\ ui'.cache = [present |-> TRUE, json |-> ui.file.json, at |-> SettledCall.now]
             ELSE /\ ret'.kind = "threw"
                  /\ ui'.cache = ui.cache
       /\ op' \in {"tick", "write"} => ui'.cache = ui.cache
       /\ ui'.cache.present
          => [json |-> ui'.cache.json, startedAt |-> ui'.cache.at] \in ui'.reads
      ]_vars

\* Two overlapping calls: the later one settled first, then the earlier one
\* replaced the entry with what it read, stamped with its own earlier start.
C22_Witness ==
    /\ op = "settle"
    /\ ret.kind = "read"
    /\ ui.cache = [present |-> TRUE, json |-> <<"node">>, at |-> 0]
    /\ [json |-> <<>>, startedAt |-> 1] \in ui.reads
    /\ ui.inflight = {}

(***************************************************************************)
(* nodeData.server: computeNodes and getDashboardData.                     *)
(***************************************************************************)
\* computeNodes scoring every node against the parameter default instead of the
\* latest version of the list.
computeNodes_ScoreAgainstDefault(inputNodes) ==
    [source |-> inputNodes,
     computed |-> [i \in 1..Len(inputNodes) |->
                     [inputNodes[i] EXCEPT
                        !.healthScore = calculateHealthScore(inputNodes[i], DefaultLatestVersion)]]]

\* inputNodes.map(node => ({...node, healthScore: calculateHealthScore(node,
\* latestVersion)})): the caller's array after the call, and the array returned.
computeNodes(inputNodes) ==
    [source |-> inputNodes,
     computed |-> [i \in 1..Len(inputNodes) |->
                     [inputNodes[i] EXCEPT
                        !.healthScore =
                            calculateHealthScore(inputNodes[i], getLatestVersion(inputNodes))]]]

\* The value getDashboardData builds from the raw snapshot at time `now`.
DashboardData(computed, now) ==
    [nodes |-> computed,
     rankedNodes |-> rankNodes(computed),
     networkStats |-> getNetworkStats(computed),
     versionDistribution |-> getNodesByVersion(computed),
     updatedAt |-> now]

\* getDashboardData ranking the raw nodes instead of the computed ones.
getDashboardData_RankRaw(raw, now) ==
    [DashboardData(computeNodes(raw).computed, now) EXCEPT !.rankedNodes = rankNodes(raw)]

getDashboardData(raw, now) == DashboardData(computeNodes(raw).computed, now)

(***************************************************************************)
(* SpecCompute: computeNodes on a raw node list.                           *)
(***************************************************************************)
ComputeVersions ==
    {V_1_0, V_1_0_0, V_2_0_0, <<"v", "2", ".", "0", ".", "0">>, <<"x", ".", "y", ".", "z">>}

\* storageCommitted / storageTotal / healthScore already in the snapshot
ComputeProfiles == {<<0, 0, Undefined>>, <<1, 2, Undefined>>, <<2, 2, Lit(5)>>}

ComputeNodes_Inputs ==
    {MkNode("pk", "online", v, 0, q[2], 15, TRUE, q[1], q[3]) :
        v \in ComputeVersions, q \in ComputeProfiles}

InitCompute ==
    /\ nodes \in {Keyed(l) : l \in Lists(ComputeNodes_Inputs, MaxNodes)}
    /\ arg = <<>>
    /\ op = "init"
    /\ ret = Undefined
    /\ ui = NoComponent

\* computeNodes(inputNodes)
ComputeNodes ==
    /\ op = "init"
    /\ ret' = computeNodes(nodes).computed
    /\ nodes' = computeNodes(nodes).source
    /\ op' = "computeNodes"
    /\ UNCHANGED <<arg, ui>>

NextCompute == ComputeNodes

SpecCompute == InitCompute /\ [][NextCompute]_vars

\* The records of `list` without their healthScore.
Unscored(list) == [i \in 1..Len(list) |-> [list[i] EXCEPT !.healthScore = Undefined]]

\* The version-currency term is 20 for exactly the nodes whose version string is v.
ScoredAgainst_v(input, output, v) ==
    \A i \in 1..Len(input) : output[i].healthScore = calculateHealthScore(input[i], v)

\* C30: for every non-empty node list the latest version computeNodes scores against
\* is the exact version string of at least one input node, so at least one node gets
\* the 20-point version term; every node that gets 20 points has a version that
\* compares >= every other node's version; the nodes come back in input order with
\* only healthScore added, and the input records are left unmodified.
C30_LatestIsAnInputVersion ==
    [][op' = "computeNodes" /\ nodes # <<>>
        => /\ nodes' = nodes
           /\ Len(ret') = Len(nodes)
           /\ Unscored(ret') = Unscored(nodes)
           /\ \E k \in 1..Len(nodes) :
                /\ ScoredAgainst_v(nodes, ret', nodes[k].version)
                /\ VersionTerm(nodes[k], nodes[k].version) = Lit(20)
                /\ \A i \in 1..Len(nodes) :
                     VersionTerm(nodes[i], nodes[k].version) = Lit(20)
                        => \A j \in 1..Len(nodes) :
                             compareVersions(nodes[i].version, nodes[j].version) >= 0]_vars

\* Three nodes, the newest in the middle and written in two spellings: only the exact
\* string of the first maximum scores 20 points.
C30_Witness ==
    /\ op = "computeNodes"
    /\ Len(nodes) = 3
    /\ nodes[1].version = V_1_0
    /\ nodes[2].version = V_2_0_0
    /\ nodes[3].version = <<"v", "2", ".", "0", ".", "0">>
    /\ nodes[2].storageTotal = 2 /\ nodes[3].storageTotal = 2
    /\ nodes[2].storageCommitted = nodes[3].storageCommitted
    /\ NumLess(ret[3].healthScore, ret[2].healthScore)
    /\ nodes[2].healthScore # ret[2].healthScore

(***************************************************************************)
(* SpecDashboard: DashboardClient.  The 15-second interval starts polls,   *)
(* the Refresh button starts manual refreshes, every request awaits fetch  *)
(* and then res.json(), and the component may unmount at any time.  The    *)
(* server answers a request with getDashboardData of the snapshot it has   *)
(* at that moment, with a status that is not OK, or not at all.            *)
(***************************************************************************)
MaxRequests == 2

\* JSON.stringify writes NaN and the infinities as null.
JsonNullNumber == [k |-> "null", n |-> 0, d |-> 1]
JsonNumeric(x) == IF x.k \in {"nan", "inf"} THEN JsonNullNumber ELSE x

JsonNodes(list) ==
    [i \in 1..Len(list) |->
        [list[i] EXCEPT !.healthScore = JsonNumeric(@), !.rank = JsonNumeric(@),
                        !.percentileRank = JsonNumeric(@)]]

\* res.json() of NextResponse.json(data)
jsonTransfer(data) ==
    [nodes |-> JsonNodes(data.nodes),
     rankedNodes |-> JsonNodes(data.rankedNodes),
     networkStats |->
        [f \in DOMAIN data.networkStats |->
            IF f = "latestVersion" THEN data.networkStats[f]
            ELSE JsonNumeric(data.networkStats[f])],
     versionDistribution |->
        [i \in 1..Len(data.versionDistribution) |->
            [version |-> data.versionDistribution[i].version,
             count |-> JsonNumeric(data.versionDistribution[i].count),
             percentage |-> JsonNumeric(data.versionDistribution[i].percentage)]],
     updatedAt |-> data.updatedAt]

\* The snapshots pnodes.json holds over time.
RawSnapshots ==
    <<Keyed(<<MkNode("pk", "online", V_1_0_0, 1, 2, 30, TRUE, 2, Undefined),
              MkNode("pk", "offline", V_2_0_0, 0, 2, 3, FALSE, 1, Undefined)>>),
      Keyed(<<MkNode("pk", "online", V_1_0, 0, 0, 15, TRUE, 0, Undefined),
              MkNode("pk", "online", V_1_0_0, 1, 0, 15, TRUE, 1, Undefined),
              MkNode("pk", "online", V_1_0, 1, 2, 0, FALSE, 0, Lit(5))>>),
      <<>>>>

ServerTimes == <<"t1", "t2", "t3">>

\* The body of an OK response while the server holds snapshot s.
ResponseBody(s) == jsonTransfer(getDashboardData(RawSnapshots[s], ServerTimes[s]))

NoBody == jsonTransfer(getDashboardData(<<>>, "none"))

Request(id, kind) == [id |-> id, kind |-> kind, stage |-> "fetch", body |-> NoBody]

\* refresh up to await fetch(...)
refreshStart(state, id) ==
    [state EXCEPT !.isRefreshing = TRUE,
                  !.requests = @ \cup {Request(id, "poll")},
                  !.begun = @ + 1]

\* finally { if (!cancelled) setIsRefreshing(false); }
refreshFinally(state, req) ==
    [state EXCEPT !.requests = @ \ {req},
                  !.isRefreshing = IF state.cancelled THEN @ ELSE FALSE]

\* refresh from the settling of fetch to await res.json(): a rejected fetch and a
\* response that is not OK leave through the finally block.
refreshAfterFetch(state, req, outcome, body) ==
    IF outcome = "ok"
    THEN [state EXCEPT !.requests =
            (@ \ {req}) \cup {[req EXCEPT !.stage = "json", !.body = body]}]
    ELSE refreshFinally(state, req)

\* refresh after res.json() with setData called whether or not the effect was
\* cleaned up.
refreshAfterJson_NoCancelledGuard(state, req, outcome) ==
    refreshFinally(IF outcome = "parsed" THEN [state EXCEPT !.data = req.body] ELSE state,
                   req)

\* refresh after res.json(): if (!cancelled) setData(next), then the finally block.
refreshAfterJson(state, req, outcome) ==
    refreshFinally(IF outcome = "parsed" /\ ~state.cancelled
                   THEN [state EXCEPT !.data = req.body]
                   ELSE state,
                   req)

\* handleManualRefresh up to await fetch(...)
handleManualRefreshStart(state, id) ==
    [state EXCEPT !.isRefreshing = TRUE,
                  !.requests = @ \cup {Request(id, "manual")},
                  !.begun = @ + 1]

\* catch { toast.error(...) } finally { setIsRefreshing(false); }
handleManualRefreshFailed(state, req) ==
    [state EXCEPT !.requests = @ \ {req}, !.isRefreshing = FALSE, !.toast = "error"]

\* handleManualRefresh from the settling of fetch to await res.json()
handleManualRefreshAfterFetch(state, req, outcome, body) ==
    IF outcome = "ok"
    THEN [state EXCEPT !.requests =
            (@ \ {req}) \cup {[req EXCEPT !.stage = "json", !.body = body]}]
    ELSE handleManualRefreshFailed(state, req)

\* handleManualRefresh after res.json(): setData(next), toast.success, finally.
handleManualRefreshAfterJson(state, req, outcome) ==
    IF outcome = "parsed"
    THEN [state EXCEPT !.requests = @ \ {req}, !.isRefreshing = FALSE,
                       !.data = req.body, !.toast = "success"]
    ELSE handleManualRefreshFailed(state, req)

\* The cleanup of the polling effect.
cleanup(state) ==
    [state EXCEPT !.cancelled = TRUE, !.interval = FALSE, !.mounted = FALSE]

FetchOutcomes == {"ok", "notOk", "rejected"}
JsonOutcomes == {"parsed", "rejected"}

\* useState(initialData), useState(false), and the effect has registered the interval.
InitDashboard ==
    /\ nodes = RawSnapshots[1]
    /\ arg = <<>>
    /\ op = "init"
    /\ ret = Undefined
    /\ ui = [component |-> "DashboardClient", mounted |-> TRUE, cancelled |-> FALSE,
             interval |-> TRUE, data |-> getDashboardData(RawSnapshots[1], "t0"),
             isRefreshing |-> FALSE, requests |-> {}, begun |-> 0, toast |-> "none",
             snapshot |-> 1]

\* pnodes.json is replaced by the next snapshot.
SnapshotChanges ==
    /\ ui.component = "DashboardClient"
    /\ ui.snapshot < Len(RawSnapshots)
    /\ ui' = [ui EXCEPT !.snapshot = @ + 1]
    /\ nodes' = RawSnapshots[ui.snapshot + 1]
    /\ op' = "snapshot"
    /\ UNCHANGED <<arg, ret>>

\* The interval fires: refresh()
PollStarts ==
    /\ ui.component = "DashboardClient"
    /\ ui.interval
    /\ ui.begun < MaxRequests
    /\ ui' = refreshStart(ui, ui.begun + 1)
    /\ op' = "refresh"
    /\ UNCHANGED <<nodes, arg, ret>>

\* The fetch of a poll settles.
PollFetchSettled ==
    /\ ui.component = "DashboardClient"
    /\ \E req \in ui.requests, outcome \in FetchOutcomes :
        /\ req.kind = "poll" /\ req.stage = "fetch"
        /\ ui' = refreshAfterFetch(ui, req, outcome, ResponseBody(ui.snapshot))
        /\ ret' = req.id
    /\ op' = "refresh"
    /\ UNCHANGED <<nodes, arg>>

\* res.json() of a poll settles.
PollJsonSettled ==
    /\ ui.component = "DashboardClient"
    /\ \E req \in ui.requests, outcome \in JsonOutcomes :
        /\ req.kind = "poll" /\ req.stage = "json"
        /\ ui' = refreshAfterJson(ui, req, outcome)
        /\ ret' = req.id
    /\ op' = "refresh"
    /\ UNCHANGED <<nodes, arg>>

\* A click on Refresh, which is disabled while isRefreshing.
ManualStarts ==
    /\ ui.component = "DashboardClient"
    /\ ui.mounted
    /\ ~ui.isRefreshing
    /\ ui.begun < MaxRequests
    /\ ui' = handleManualRefreshStart(ui, ui.begun + 1)
    /\ op' = "handleManualRefresh"
    /\ UNCHANGED <<nodes, arg, ret>>

ManualFetchSettled ==
    /\ ui.component = "DashboardClient"
    /\ \E req \in ui.requests, outcome \in FetchOutcomes :
        /\ req.kind = "manual" /\ req.stage = "fetch"
        /\ ui' = handleManualRefreshAfterFetch(ui, req, outcome, ResponseBody(ui.snapshot))
        /\ ret' = req.id
    /\ op' = "handleManualRefresh"
    /\ UNCHANGED <<nodes, arg>>

ManualJsonSettled ==
    /\ ui.component = "DashboardClient"
    /\ \E req \in ui.requests, outcome \in JsonOutcomes :
        /\ req.kind = "manual" /\ req.stage = "json"
        /\ ui' = handleManualRefreshAfterJson(ui, req, outcome)
        /\ ret' = req.id
    /\ op' = "handleManualRefresh"
    /\ UNCHANGED <<nodes, arg>>

\* The component unmounts.
Unmount ==
    /\ ui.component = "DashboardClient"
    /\ ui.mounted
    /\ ui' = cleanup(ui)
    /\ op' = "cleanup"
    /\ UNCHANGED <<nodes, arg, ret>>

NextDashboard ==
    \/ SnapshotChanges
    \/ PollStarts
    \/ PollFetchSettled
    \/ PollJsonSettled
    \/ ManualStarts
    \/ ManualFetchSettled
    \/ ManualJsonSettled
    \/ Unmount

SpecDashboard == InitDashboard /\ [][NextDashboard]_vars

Polls(state) == {req \in state.requests : req.kind = "poll"}

\* C23: once the polling effect has been cleaned up no further poll is issued, and
\* the response of a poll still in flight changes neither the displayed data nor the
\* refreshing flag; a poll whose response is not OK leaves the displayed data
\* unchanged.
C23_StalePollIgnored ==
    [][/\ ui.cancelled
            => /\ Polls(ui') \subseteq Polls(ui) \cup
                    {[req EXCEPT !.stage = "json", !.body = b] :
                        req \in Polls(ui), b \in {ResponseBody(ui.snapshot)}}
               /\ ui'.begun = ui.begun \/ op' # "refresh"
               /\ op' = "refresh"
                    => ui'.data = ui.data /\ ui'.isRefreshing = ui.isRefreshing
       /\ (op' = "refresh" /\ ui'.data # ui.data)
            => \E req \in Polls(ui) :
                /\ req.stage = "json"
                /\ req \notin ui'.requests
                /\ ui'.data = req.body]_vars

\* After the cleanup, a poll that was awaiting res.json() with a new snapshot in its
\* body has finished, and the data is still the initial one with the flag still set.
C23_Witness ==
    /\ ui.component = "DashboardClient"
    /\ ui.cancelled
    /\ op = "refresh"
    /\ ui.requests = {}
    /\ ui.begun = 1
    /\ ui.isRefreshing
    /\ ui.snapshot = 2
    /\ ui.data = getDashboardData(RawSnapshots[1], "t0")

\* C27: in the mounted dashboard, under every interleaving of polls and manual
\* refreshes, the refreshing flag is true whenever at least one refresh request is in
\* flight, and false once no request is in flight.
C27_FlagTracksRequestsInFlight ==
    (ui.component = "DashboardClient" /\ ui.mounted)
        => (ui.isRefreshing <=> ui.requests # {})

\* What the single boolean does give: with no request in flight the flag is false.
C27_FlagFalseWhenIdle ==
    (ui.component = "DashboardClient" /\ ui.mounted /\ ui.requests = {})
        => ~ui.isRefreshing

\* A consistent value of DashboardData, as read by the client.
Consistent(data) ==
    /\ Len(data.rankedNodes) = Len(data.nodes)
    /\ \A i \in 1..Len(data.nodes) :
        /\ Occurrences(data.nodes[i],
                       [j \in 1..Len(data.rankedNodes) |-> Unranked(data.rankedNodes[j])])
             = Occurrences(data.nodes[i], data.nodes)
        /\ data.nodes[i].healthScore # Undefined
        /\ JsonNumeric(calculateHealthScore(data.nodes[i], data.networkStats.latestVersion))
             = JsonNumeric(data.nodes[i].healthScore)
    /\ data.networkStats.totalNodes = Lit(Len(data.nodes))
    /\ SumNums([i \in 1..Len(data.versionDistribution) |->
                    data.versionDistribution[i].count]) = Lit(Len(data.nodes))

PK_Short == [i \in 1..31 |-> "a"]
PK_Blank == [i \in 1..32 |-> " "]
PK_Padded == <<" ">> \o PK_Short

PubkeyValues ==
    {JsUndefined, JsNull, Str(<<>>), Str(<<"a", "b", "c">>), Str(PK_Short), Str(PK_A),
     Str(PK_Blank), Str(PK_Padded), Num(Lit(5))}

StatusValues ==
    {JsUndefined, Str(<<>>), Str(S_online), Str(<<"O", "f", "f", "L", "i", "n", "e">>),
     Str(<<"u", "p">>), Str(<<" ", "o", "n", "l", "i", "n", "e">>), Bool(TRUE)}

NoOptional == <<K.version, JsUndefined>>

\* An optional field and its value.
OptionalCases ==
    {NoOptional,
     <<K.healthScore, Str(<<"0">>)>>,
     <<K.healthScore, Str(<<"1", "0", "0">>)>>,
     <<K.healthScore, Str(<<"1", "0", "0", ".", "5">>)>>,
     <<K.healthScore, Str(<<"-", "1">>)>>,
     <<K.healthScore, Str(<<"a", "b", "c">>)>>,
     <<K.healthScore, Str(<<" ", " ">>)>>,
     <<K.healthScore, Num(Lit(50))>>,
     <<K.healthScore, Num(NaN)>>,
     <<K.healthScore, Str(<<>>)>>,
     <<K.healthScore, JsNull>>,
     <<K.healthScore, Str(<<"1", "e", "2">>)>>,
     <<K.healthScore, Str(<<"I", "n", "f", "i", "n", "i", "t", "y">>)>>,
     <<K.uptime, Str(<<"1", ".", "5">>)>>,
     <<K.uptime, Str(<<"-", "1">>)>>,
     <<K.uptime, Str(<<" ">>)>>,
     <<K.uptime, Num(Lit(0))>>,
     <<K.storageUsed, Str(<<"7">>)>>,
     <<K.storageUsed, Str(<<"x">>)>>,
     <<K.storageTotal, Str(<<"7">>)>>,
     <<K.storageTotal, Str(<<"-", "0", ".", "5">>)>>,
     <<K.isPublic, Str(<<"Y", "E", "S">>)>>,
     <<K.isPublic, Str(<<"N", "o">>)>>,
     <<K.isPublic, Str(<<"m", "a", "y", "b", "e">>)>>,
     <<K.isPublic, Bool(TRUE)>>,
     <<K.isPublic, Num(Lit(1))>>,
     <<K.isPublic, Num(Lit(2))>>,
     <<K.isPublic, Str(<<"1">>)>>,
     <<K.ip, Str(<<"9", "9", "9", ".", "9", "9", "9", ".", "9", "9", "9", ".", "9", "9", "9">>)>>,
     <<K.ip, Str(<<"1", ".", "2", ".", "3">>)>>,
     <<K.ip, Str(<<"1", ".", "2", ".", "3", ".", "4", "4", "4", "4">>)>>,
     <<K.ip, Str(<<"1", ".", "2", ".", "3", ".", "4">>)>>,
     <<K.ip, Str(<<"a", ".", "b", ".", "c", ".", "d">>)>>,
     <<K.ip, Str(<<" ", "1", ".", "2", ".", "3", ".", "4">>)>>,
     <<K.rpcPort, Str(<<"8", "8", "9", "9">>)>>,
     <<K.rpcPort, Str(<<"0">>)>>,
     <<K.rpcPort, Str(<<"1">>)>>,
     <<K.rpcPort, Str(<<"6", "5", "5", "3", "5">>)>>,
     <<K.rpcPort, Str(<<"6", "5", "5", "3", "6">>)>>,
     <<K.rpcPort, Num(Fin(3, 2))>>,
     <<K.rpcPort, Str(<<"8", "0", ".", "0">>)>>,
     <<K.rpcPort, Str(<<" ", " ">>)>>}

SecondCases == {NoOptional, <<K.uptime, Str(<<"-", "1">>)>>, <<K.version, Str(<<"1">>)>>}

Property(key, value) ==
    IF value.t = "undefined" THEN <<>> ELSE <<[key |-> key, value |-> value]>>

\* The pairs of optional fields of a row: two different fields, or fewer.
OptionalPairs ==
    {q \in OptionalCases \X SecondCases : q[1][1] # q[2][1] \/ q[2] = NoOptional}

ValidateRows ==
    {Obj(Property(K.pubkey, pk) \o Property(K.status, st)
            \o Property(q[1][1], q[1][2]) \o Property(q[2][1], q[2][2])) :
        pk \in PubkeyValues, st \in StatusValues, q \in OptionalPairs}

InitValidate ==
    /\ nodes = <<>>
    /\ arg \in {[row |-> r] : r \in ValidateRows}
    /\ op = "init"
    /\ ret = Undefined
    /\ ui = NoComponent

\* validateRow(row, 1)
ValidateRow ==
    /\ op = "init"
    /\ ret' = validateRow(arg.row, 1)
    /\ op' = "validateRow"
    /\ UNCHANGED <<nodes, arg, ui>>

NextValidate == ValidateRow

SpecValidate == InitValidate /\ [][NextValidate]_vars

\* A number, or a string that spells one.
IsNumeric(value) ==
    \/ value.t = "number" /\ IsFinite(value.num)
    \/ value.t = "string" /\ Trim(value.str) # <<>> /\ IsFinite(StringToNumber(value.str))

BooleanWords ==
    {<<"t", "r", "u", "e">>, <<"f", "a", "l", "s", "e">>, <<"y", "e", "s">>, <<"n", "o">>,
     <<"1">>, <<"0">>}

\* The rule the statement gives for a field, on a value that is present and non-empty.
RuleHolds(field, value, num) ==
    CASE field = K.healthScore ->
            IsNumeric(value) /\ NumGeq(num, Lit(0)) /\ NumGeq(Lit(100), num)
      [] field \in {K.uptime, K.storageUsed, K.storageTotal} ->
            IsNumeric(value) /\ NumGeq(num, Lit(0))
      [] field = K.isPublic -> ToLowerCase(ToStr(value)) \in BooleanWords
      [] field = K.ip -> value.t = "string" /\ IsIPv4(value.str)
      [] field = K.rpcPort ->
            IsNumeric(value) /\ num.d = 1 /\ NumGeq(num, Lit(1)) /\ NumGeq(Lit(65535), num)

\* A field the statement counts as violated.
Violates(field, value) ==
    IF field = K.pubkey THEN ~(value.t = "string" /\ Len(value.str) >= 32)
    ELSE IF field = K.status
    THEN ~(value.t = "string" /\ ToLowerCase(value.str) \in {S_online, S_offline})
    ELSE ~IsBlank(value) /\ ~RuleHolds(field, value, ToNum(value))

ViolatedFields(row) ==
    {ValidatedFields[i] : i \in {j \in 1..Len(ValidatedFields) :
                                    Violates(ValidatedFields[j], RowGet(row, ValidatedFields[j]))}}

ErrorsMatch(errors, violated) ==
    /\ (errors = <<>>) <=> (violated = {})
    /\ Len(errors) = Cardinality(violated)
    /\ {errors[i].field : i \in 1..Len(errors)} = violated

\* C24: a row produces zero validation errors exactly when pubkey is a non-empty
\* string of at least 32 characters, status is 'online' or 'offline' in any letter
\* case, and every optional field that is present and non-empty satisfies its rule
\* (healthScore numeric in 0..100; uptime, storageUsed, storageTotal numeric and
\* >= 0; isPublic one of true/false/yes/no/1/0; ip of dotted-quad shape; rpcPort an
\* integer in 1..65535); each violated field contributes exactly one error naming it.
C24_ZeroErrorsExactlyForValidRows ==
    op = "validateRow" => ErrorsMatch(ret, ViolatedFields(arg.row))

\* A string that is not empty but holds white space only.
BlankString(value) == value.t = "string" /\ value.str # <<>> /\ Trim(value.str) = <<>>

\* The statement holds for the rows in which no value is a string of white space.
C24_HoldsWithoutBlankStrings ==
    (op = "validateRow"
        /\ \A i \in 1..Len(arg.row.entries) : ~BlankString(arg.row.entries[i].value))
        => ErrorsMatch(ret, ViolatedFields(arg.row))

(***************************************************************************)
(* SpecPreview: generateImportPreview on a list of parsed rows.            *)
(***************************************************************************)
\* limit = 10
DefaultPreviewLimit == 10

\* list.slice(0, end): a negative end counts from the end of the list.
SliceTo(list, end) ==
    SubSeq(list, 1, IF end < 0
                    THEN (IF Len(list) + end < 0 THEN 0 ELSE Len(list) + end)
                    ELSE Min(end, Len(list)))

\* Object.keys(row)
ObjectKeys(row) == [i \in 1..Len(row.entries) |-> row.entries[i].key]

\* The object generateImportPreview returns, given the result of the validation.
PreviewData(rows, limit, validation) ==
    [headers |-> IF Len(rows) > 0 THEN ObjectKeys(rows[1]) ELSE <<>>,
     rows |-> SliceTo(rows, limit),
     totalRows |-> Len(rows),
     validRows |-> validation.validRows,
     invalidRows |-> validation.invalidRows,
     errors |-> SliceTo(validation.errors, 50)]

\* generateImportPreview validating the previewed rows only.
generateImportPreview_ValidatePreviewed(rows, limit) ==
    PreviewData(rows, limit, validateImportData(SliceTo(rows, limit)))

generateImportPreview(rows, limit) == PreviewData(rows, limit, validateImportData(rows))

\* A row with an error in every validated field.
AllWrong ==
    Obj(<<[key |-> K.pubkey, value |-> Str(<<"a">>)],
          [key |-> K.status, value |-> Str(<<"u", "p">>)],
          [key |-> K.healthScore, value |-> Str(<<"1", "0", "1">>)],
          [key |-> K.uptime, value |-> Str(<<"-", "1">>)],
          [key |-> K.storageUsed, value |-> Str(<<"x">>)],
          [key |-> K.storageTotal, value |-> Str(<<"-", "1">>)],
          [key |-> K.isPublic, value |-> Str(<<"m">>)],
          [key |-> K.ip, value |-> Str(<<"1", ".", "2">>)],
          [key |-> K.rpcPort, value |-> Str(<<"0">>)]>>)

PreviewSamples == {R.valid, R.validFull, R.shortPubkey, R.manyErrors}

\* Short lists of every kind, lists of 45 to 64 errors, and lists longer than the
\* default limit.
PreviewRowLists ==
    Lists(PreviewSamples, 2)
        \cup {<<a>> \o [i \in 1..n |-> AllWrong] \o <<b>> :
                a \in PreviewSamples, b \in PreviewSamples, n \in {5, 6}}
        \cup {[i \in 1..n |-> IF i = m THEN R.shortPubkey ELSE R.valid] :
                n \in {10, 11, 12}, m \in {1, 6, 11}}

PreviewLimits == {-1, 0, 1, 5, 7, 8, 11, 12}

PreviewArgs ==
    {[rows |-> rs, given |-> TRUE, limit |-> l] : rs \in PreviewRowLists, l \in PreviewLimits}
        \cup {[rows |-> rs, given |-> FALSE, limit |-> 0] : rs \in PreviewRowLists}

InitPreview ==
    /\ nodes = <<>>
    /\ arg \in PreviewArgs
    /\ op = "init"
    /\ ret = Undefined
    /\ ui = NoComponent

\* generateImportPreview(rows, limit)
GenerateImportPreview ==
    /\ op = "init"
    /\ arg.given
    /\ ret' = generateImportPreview(arg.rows, arg.limit)
    /\ op' = "generateImportPreview"
    /\ UNCHANGED <<nodes, arg, ui>>

\* generateImportPreview(rows): the parameter default applies.
GenerateImportPreviewDefault ==
    /\ op = "init"
    /\ ~arg.given
    /\ ret' = generateImportPreview(arg.rows, DefaultPreviewLimit)
    /\ op' = "generateImportPreview"
    /\ UNCHANGED <<nodes, arg, ui>>

NextPreview == GenerateImportPreview \/ GenerateImportPreviewDefault

SpecPreview == InitPreview /\ [][NextPreview]_vars

\* The errors of rows 1..i, each row validated on its own, in row order.
RECURSIVE ErrorsInRowOrder(_, _)
ErrorsInRowOrder(rows, i) ==
    IF i = 0 THEN <<>> ELSE ErrorsInRowOrder(rows, i - 1) \o validateRow(rows[i], i)

PreviewAsStated(preview, rows, limit, allErrors) ==
    /\ preview.rows = SubSeq(rows, 1, Min(limit, Len(rows)))
    /\ preview.totalRows = Len(rows)
    /\ preview.validRows = Cardinality({i \in 1..Len(rows) : validateRow(rows[i], i) = <<>>})
    /\ preview.invalidRows = Cardinality({i \in 1..Len(rows) : validateRow(rows[i], i) # <<>>})
    /\ preview.validRows + preview.invalidRows = preview.totalRows
    /\ preview.errors = SubSeq(allErrors, 1, Min(50, Len(allErrors)))

\* C25: generateImportPreview(rows, limit) returns the first min(limit, number of
\* rows) rows in order (limit defaults to 10), totalRows = number of rows, validRows
\* and invalidRows counted over all rows with validRows + invalidRows = totalRows,
\* and as errors the first min(50, total errors) validation errors in row order.
\* A limit is a count of rows, so it is not negative.
C25_PreviewCountsAllRows ==
    (op = "generateImportPreview" /\ (arg.given => arg.limit >= 0))
        => PreviewAsStated(ret, arg.rows, IF arg.given THEN arg.limit ELSE DefaultPreviewLimit,
                           ErrorsInRowOrder(arg.rows, Len(arg.rows)))

\* Eight rows with 55 errors, previewed with limit 7: the last row is not shown but
\* counted, and the last five errors are cut off.
C25_Witness ==
    /\ op = "generateImportPreview"
    /\ arg.given /\ arg.limit = 7
    /\ Len(arg.rows) = 8
    /\ Len(ret.rows) = 7
    /\ ret.totalRows = 8
    /\ ret.validRows = 1 /\ ret.invalidRows = 7
    /\ arg.rows[8] = R.shortPubkey
    /\ Len(ret.errors) = 50
    /\ ret.errors[50].row = 7

(***************************************************************************)
(* The Reset control of the map filter bar (SpecMap).                      *)
(***************************************************************************)
\* {!isDefault && <Button onClick={onReset}>Reset</Button>}
ResetOffered(state) == ~isDefaultFilters(state.filters)

\* Both statuses selected and the whole health range.
DefaultAsStated(filters) ==
    /\ {filters.statuses[i] : i \in 1..Len(filters.statuses)} = {"online", "offline"}
    /\ filters.healthRange = <<0, 100>>

\* C26: isDefaultFilters(f) is true exactly when f.statuses holds both 'online' and
\* 'offline' and f.healthRange is exactly [0, 100]; the filter bar offers Reset
\* exactly in the states where it is false; and after any sequence of checkbox
\* toggles and slider changes a Reset yields a state in which isDefaultFilters is
\* true and applyMapFilters returns every node.
C26_ResetRestoresDefault ==
    /\ [](ui.component = "NodeMapInner"
            => /\ isDefaultFilters(ui.filters) <=> DefaultAsStated(ui.filters)
               /\ ResetOffered(ui) <=> ~DefaultAsStated(ui.filters))
    /\ [][op' = "handleReset"
            => /\ isDefaultFilters(ui'.filters)
               /\ ~ResetOffered(ui')
               /\ ret'.items = nodes'
               /\ applyMapFilters(Source(nodes'), ui'.filters).items = nodes']_vars

\* Two nodes are loaded, one offline and one with health score 0, and a Reset has
\* run: the filters are the default ones and both nodes are shown.
C26_Witness ==
    /\ op = "handleReset"
    /\ ui.component = "NodeMapInner"
    /\ ui.mapKey = 1
    /\ ui.filters.statuses = <<"online", "offline">>
    /\ Len(nodes) = 2
    /\ nodes[1].status = "offline" /\ nodes[2].healthScore = Lit(0)
    /\ Len(ret.items) = 2

(***************************************************************************)
(* SpecImportDialog: the ImportDialog component.  A dropped file is read   *)
(* with f.text(); reads of several files may be pending at once and settle *)
(* in any order.                                                           *)
(***************************************************************************)
MaxReads == 3

\* The limit processFile passes to generateImportPreview.
DialogPreviewLimit == 5

ImportFiles ==
    {[name |-> "one.csv", readable |-> TRUE, content |-> <<"p", "u", "b", "k", "e", "y", ",", "s", "t", "a", "t", "u", "s", "\n", "a", "a", "a", "a", "a", "a", "a", "a", "a", "a", "a", "a", "a", "a", "a", "a", "a", "a", "a", "a", "a", "a", "a", "a", "a", "a", "a", "a", "a", "a", "a", "a", ",", "o", "n", "l", "i", "n", "e">>],
     [name |-> "two.csv", readable |-> TRUE, content |-> <<"p", "u", "b", "k", "e", "y", ",", "s", "t", "a", "t", "u", "s", "\n", "b", "b", "b", "b", "b", "b", "b", "b", "b", "b", "b", "b", "b", "b", "b", "b", "b", "b", "b", "b", "b", "b", "b", "b", "b", "b", "b", "b", "b", "b", "b", "b", ",", "o", "f", "f", "l", "i", "n", "e", "\n", "s", "h", "o", "r", "t", ",", "o", "n", "l", "i", "n", "e">>],
     [name |-> "none.json", readable |-> TRUE, content |-> <<"[", "{", "\"", "p", "u", "b", "k", "e", "y", "\"", ":", "\"", "x", "\"", ",", "\"", "s", "t", "a", "t", "u", "s", "\"", ":", "\"", "u", "p", "\"", "}", "]">>],
     [name |-> "shape.json", readable |-> TRUE, content |-> <<"{", "\"", "a", "\"", ":", "1", "}">>],
     [name |-> "notes.csv", readable |-> TRUE, content |-> <<"h", "e", "l", "l", "o">>],
     [name |-> "gone.csv", readable |-> FALSE, content |-> <<>>]}

NoFile == [present |-> FALSE, name |-> "", readable |-> FALSE, content |-> <<>>]
StoredFile(f) == [present |-> TRUE, name |-> f.name, readable |-> f.readable, content |-> f.content]

NoPreview == [present |-> FALSE, data |-> PreviewData(<<>>, 0, validateImportData(<<>>))]
StoredPreview(data) == [present |-> TRUE, data |-> data]

NoError == [present |-> FALSE, message |-> ""]
StoredError(message) == [present |-> TRUE, message |-> message]

\* resetState
resetState(state) == [state EXCEPT !.file = NoFile, !.preview = NoPreview, !.error = NoError]

\* processFile up to await f.text()
processFileStart(state, f) ==
    [state EXCEPT !.isProcessing = TRUE, !.error = NoError,
                  !.reads = @ \cup {[id |-> state.begun + 1, kind |-> "processFile",
                                     file |-> StoredFile(f)]},
                  !.begun = @ + 1]

\* catch (err) { setError(...); setPreview(null); } finally { setIsProcessing(false); }
processFileCatch(state, read, message) ==
    [state EXCEPT !.error = StoredError(message), !.preview = NoPreview,
                  !.isProcessing = FALSE, !.reads = @ \ {read}]

\* The rows were parsed: setPreview(previewData); setFile(f); then the finally block.
processFileParsed(state, read, parsed) ==
    IF parsed.threw THEN processFileCatch(state, read, parsed.error)
    ELSE [state EXCEPT !.preview =
                            StoredPreview(generateImportPreview(parsed.value, DialogPreviewLimit)),
                       !.file = read.file,
                       !.isProcessing = FALSE, !.reads = @ \ {read}]

\* processFile after f.text() gave the content.
processFileAfterText(state, read, fileType) ==
    IF ~read.file.readable THEN processFileCatch(state, read, "The file could not be read")
    ELSE IF fileType = "unknown"
    THEN processFileCatch(state, read,
                          "Unable to detect file format. Please use CSV or JSON files.")
    ELSE processFileParsed(state, read, parseFileContent(read.file.content, fileType))

\* disabled={!preview || preview.validRows === 0 || isProcessing}
ImportDisabled(state) ==
    ~state.preview.present \/ state.preview.data.validRows = 0 \/ state.isProcessing

\* handleImport up to await file.text()
handleImportStart(state) ==
    IF ~state.file.present \/ ~state.preview.present THEN state
    ELSE [state EXCEPT !.isProcessing = TRUE,
                       !.reads = @ \cup {[id |-> state.begun + 1, kind |-> "handleImport",
                                          file |-> state.file]},
                       !.begun = @ + 1]

\* handleImport after file.text(): onImport(rows), the toast, setOpen(false) and
\* resetState(), or the error toast; then the finally block.
handleImportParsed(state, read, parsed) ==
    IF parsed.threw
    THEN [state EXCEPT !.toast = "error", !.isProcessing = FALSE, !.reads = @ \ {read}]
    ELSE [resetState(state) EXCEPT !.toast = "success", !.open = FALSE,
                                   !.imported = parsed.value,
                                   !.isProcessing = FALSE, !.reads = @ \ {read}]

InitImportDialog ==
    /\ nodes = <<>>
    /\ arg = <<>>
    /\ op = "init"
    /\ ret = Undefined
    /\ ui = [component |-> "ImportDialog", open |-> FALSE, file |-> NoFile,
             preview |-> NoPreview, error |-> NoError, isProcessing |-> FALSE,
             reads |-> {}, begun |-> 0, toast |-> "none", imported |-> <<>>]

\* handleOpenChange(true)
ImportDialogOpens ==
    /\ ui.component = "ImportDialog"
    /\ ~ui.open
    /\ ui' = [ui EXCEPT !.open = TRUE]
    /\ op' = "handleOpenChange"
    /\ UNCHANGED <<nodes, arg, ret>>

\* handleOpenChange(false): Cancel, Escape or a click outside.
ImportDialogCloses ==
    /\ ui.component = "ImportDialog"
    /\ ui.open
    /\ ui' = resetState([ui EXCEPT !.open = FALSE])
    /\ op' = "handleOpenChange"
    /\ UNCHANGED <<nodes, arg, ret>>

\* onDrop: processFile(acceptedFiles[0])
FileDropped ==
    /\ ui.component = "ImportDialog"
    /\ ui.open
    /\ ui.begun < MaxReads
    /\ \E f \in ImportFiles : ui' = processFileStart(ui, f)
    /\ op' = "onDrop"
    /\ UNCHANGED <<nodes, arg, ret>>

\* f.text() of a processFile call settles.
FileTextSettled ==
    /\ ui.component = "ImportDialog"
    /\ \E read \in ui.reads :
        /\ read.kind = "processFile"
        /\ ui' = processFileAfterText(ui, read, detectFileType(read.file.content))
        /\ ret' = read.id
    /\ op' = "processFile"
    /\ UNCHANGED <<nodes, arg>>

\* The Remove button, shown while file && !error.
FileRemoved ==
    /\ ui.component = "ImportDialog"
    /\ ui.open
    /\ ui.file.present /\ ~ui.error.present
    /\ ui' = resetState(ui)
    /\ op' = "remove"
    /\ UNCHANGED <<nodes, arg, ret>>

\* A click on Import.
ImportClicked ==
    /\ ui.component = "ImportDialog"
    /\ ui.open
    /\ ~ImportDisabled(ui)
    /\ ui.begun < MaxReads
    /\ ui' = handleImportStart(ui)
    /\ op' = "handleImport"
    /\ UNCHANGED <<nodes, arg, ret>>

\* file.text() of a handleImport call settles.
ImportTextSettled ==
    /\ ui.component = "ImportDialog"
    /\ \E read \in ui.reads :
        /\ read.kind = "handleImport"
        /\ ui' = handleImportParsed(ui, read, parseFileContent(read.file.content, "undefined"))
        /\ ret' = read.id
    /\ op' = "handleImport"
    /\ UNCHANGED <<nodes, arg>>

NextImportDialog ==
    \/ ImportDialogOpens
    \/ ImportDialogCloses
    \/ FileDropped
    \/ FileTextSettled
    \/ FileRemoved
    \/ ImportClicked
    \/ ImportTextSettled

SpecImportDialog == InitImportDialog /\ [][NextImportDialog]_vars

\* The stored preview is the one computed from the stored file.
PreviewFromFile(state, parsed) ==
    /\ state.file.present /\ state.file.readable
    /\ detectFileType(state.file.content) # "unknown"
    /\ ~parsed.threw
    /\ state.preview.data = generateImportPreview(parsed.value, DialogPreviewLimit)

\* C28: after any sequence of file drops, removals and dialog closes, including a
\* second drop while the first file is still being read, whenever a preview is
\* present the error message is absent and the stored file is the file the preview
\* was computed from; a failed or unrecognised file leaves the preview absent, so the
\* Import button is enabled only for a successfully parsed file with at least one
\* valid row.
C28_PreviewExcludesError ==
    (ui.component = "ImportDialog" /\ ui.preview.present)
        => /\ ~ui.error.present
           /\ PreviewFromFile(ui, parseFileContent(ui.file.content, "undefined"))

\* What holds in every state: a preview comes with the file it was computed from, and
\* Import is enabled only with such a preview that has a valid row.
C28_PreviewMatchesStoredFile ==
    ui.component = "ImportDialog"
        => /\ ui.preview.present
                => PreviewFromFile(ui, parseFileContent(ui.file.content, "undefined"))
           /\ ~ImportDisabled(ui)
                => ui.preview.present /\ ui.preview.data.validRows >= 1

====
